---- MODULE Spec2Model ----
(***************************************************************************)
(* A model of the synchronization core of BTflow Studio's front end        *)
(* (btflow_studio/frontend/src/App.tsx and api/client.ts): binding         *)
(* normalisation, schema inference, the initial-state payload builder,     *)
(* the run session (save / recover / run), the WebSocket event handler,    *)
(* chat sessions, and localStorage hydration / persistence.                *)
(*                                                                         *)
(* React is modelled at the granularity the code depends on: an event      *)
(* handler, the render it causes and the effects of that render form one   *)
(* action (Commit); the mount-time     hydration effect, the render that   *)
(* applies its queued state updates and the setTimeout(0) callback are     *)
(* separate steps, so that their interleavings are explored.               *)
(***************************************************************************)
EXTENDS Integers, Sequences, FiniteSets, TLC

VARIABLES
    \* ---- component state (useState hooks of Flow, App.tsx:183-203)
    nodes, edges, nodeMetas, reactFlowInstance,
    workflowId, isRunning, logs, traceEvents, toolEvents,
    chatSessions, activeChatSessionId, hasHydrated,
    initialStateValues, initialStateError,
    lastMessagesByWorkflow, reuseMessagesByWorkflow,
    \* ---- environment
    storage,        \* localStorage: slot -> stored text
    mount,          \* position of the mount-time effects / hydration
    queued,         \* state updates queued by the hydration effect, not yet rendered
    timerPending,   \* the setTimeout(() => setHasHydrated(true), 0) callback is pending
    server,         \* the execution-submission collaborator
    requests,       \* every request sent to the collaborator, in order
    calls,          \* onRun invocations in flight (closure values and position)
    clock,          \* Date.now()
    ws,             \* the WebSocket opened by the channel effect
    memo,           \* the schemas the render computed (useMemo)
    \* ---- history
    boot,           \* what localStorage held when the page was loaded
    typed,          \* the fields of the form the operator has typed into
    marked,         \* a render that was singled out, with the schemas it computed
    reported,       \* id of a node on the canvas -> the status last reported for it
                    \* since the last run-status update
    received,       \* the messages delivered in order, where a scenario follows them
    panel,          \* the chat panel: shown or not, its instance, its loading flag, the
                    \* requests its sendMessage calls are waiting for
    lastOp          \* the operation the last step performed, with its inputs

graphVars == <<nodes, edges, nodeMetas, reactFlowInstance>>
viewVars  == <<isRunning, logs, traceEvents, toolEvents>>
chatVars  == <<chatSessions, activeChatSessionId>>
formVars  == <<initialStateValues, initialStateError>>
reuseVars == <<lastMessagesByWorkflow, reuseMessagesByWorkflow>>
hydraVars == <<hasHydrated, mount, queued, timerPending>>
envVars   == <<server, requests, calls, ws>>
vars == <<nodes, edges, nodeMetas, reactFlowInstance, workflowId, isRunning, logs,
          traceEvents, toolEvents, chatSessions, activeChatSessionId, hasHydrated,
          initialStateValues, initialStateError, lastMessagesByWorkflow,
          reuseMessagesByWorkflow, storage, mount, queued, timerPending, server,
          requests, calls, clock, ws, memo, boot, typed, marked,
          reported, received, panel, lastOp>>

-----------------------------------------------------------------------------
(* Bounds of the model. *)
MaxNodes == 2          \* nodes on the canvas
MaxLog   == 2          \* entries of the log projection
MaxTrace == 2          \* entries of the trace projection
MaxStored == 2         \* chat sessions found in storage
MaxSessions == 2       \* chat sessions in the list
MaxStamps == 2         \* readings of Date.now() after the page was loaded

\* Date.now() when the page is loaded: later than every stamp in storage
LoadTime == MaxStored + 1

-----------------------------------------------------------------------------
(* JavaScript values.  Every value is a record of the same shape, so that  *)
(* values of different JavaScript types can be compared: k is the type,    *)
(* and s, n, b, q hold a string, a number, a boolean or the elements of an *)
(* array (a conversation turn {role, content} is written "role:content").  *)
JV(k, s, n, b, q) == [k |-> k, s |-> s, n |-> n, b |-> b, q |-> q]
Undef   == JV("undefined", "", 0, FALSE, <<>>)
Str(s)  == JV("string", s, 0, FALSE, <<>>)
Num(n)  == JV("number", "", n, FALSE, <<>>)
NaN     == JV("NaN", "", 0, FALSE, <<>>)
Bool(b) == JV("boolean", "", 0, b, <<>>)
List(q) == JV("array", "", 0, FALSE, q)
Dict    == JV("object", "", 0, FALSE, <<>>)
Null    == JV("null", "", 0, FALSE, <<>>)
Nullish(v) == v.k \in {"undefined", "null"}      \* what ?? replaces

Undefined == "undefined"      \* node.data.status when it is not set
NullId    == "null"           \* workflowId: string | null

(***************************************************************************)
(* Strings.                                                                *)
(***************************************************************************)
StartsWith(s, p) == Len(s) >= Len(p) /\ SubSeq(s, 1, Len(p)) = p
Slice(s, n) == SubSeq(s, n + 1, Len(s))         \* String.prototype.slice(n)

RECURSIVE TrimStart(_)
TrimStart(s) == IF Len(s) > 0 /\ SubSeq(s, 1, 1) = " " THEN TrimStart(Slice(s, 1)) ELSE s
RECURSIVE TrimEnd(_)
TrimEnd(s) ==
    IF Len(s) > 0 /\ SubSeq(s, Len(s), Len(s)) = " "
    THEN TrimEnd(SubSeq(s, 1, Len(s) - 1)) ELSE s
Trim(s) == TrimEnd(TrimStart(s))                \* String.prototype.trim()

(***************************************************************************)
(* Binding Normalizer.  A binding map holds only the ports that are bound  *)
(* (NodePanel deletes the key when the text is emptied); reading a port    *)
(* that is not bound gives undefined, which like "" is falsy.              *)
(***************************************************************************)
Lookup(bindings, portName) ==
    IF portName \in DOMAIN bindings THEN bindings[portName] ELSE ""

\* a faulty variant of normalizeBinding: the text after state. is trimmed too
normalizeBindingTrimAll(value, fallback) ==
    IF value = "" THEN fallback
    ELSE IF StartsWith(value, "state.") THEN Trim(Slice(value, Len("state.")))
    ELSE Trim(value)

normalizeBinding(value, fallback) ==
    IF value = "" THEN fallback
    ELSE IF StartsWith(value, "state.") THEN Slice(value, Len("state."))
    ELSE Trim(value)

(***************************************************************************)
(* The node-type registry.  A port of the registry may leave out its type  *)
(* or its default; normalizePorts fills them in.                           *)
(***************************************************************************)
normalizePort(p) ==
    [name    |-> p.name,
     type    |-> IF p.type = "" THEN "str" ELSE p.type,
     default |-> IF p.default = Undef THEN Str("") ELSE p.default]

normalizePorts(ports) == [i \in 1..Len(ports) |-> normalizePort(ports[i])]

getNodeVisualType(nodeType) ==
    IF nodeType \in {"Sequence", "Selector", "Parallel"} THEN "controlFlow" ELSE "action"

\* nodeMetas.find(m => m.id === node.data.nodeType || m.id === node.type)
MetaIndex(node, metas) ==
    {i \in 1..Len(metas) : metas[i].id = node.nodeType \/ metas[i].id = node.type}
HasMeta(node, metas) == MetaIndex(node, metas) # {}
FindMeta(node, metas) ==
    metas[CHOOSE i \in MetaIndex(node, metas) : \A j \in MetaIndex(node, metas) : i <= j]

(***************************************************************************)
(* Schema Inference Engine.  fields is the object the code accumulates,    *)
(* kept as the sequence of its values in insertion order (Object.values).  *)
(* A plain object also answers for the names it inherits from              *)
(* Object.prototype, so `!fields[target]` is false for those names.        *)
(***************************************************************************)
InheritedKeys == {"constructor", "toString", "valueOf", "hasOwnProperty"}

FieldNames(fields) == {fields[i].name : i \in 1..Len(fields)}
Truthy(fields, target) == target \in FieldNames(fields) \/ target \in InheritedKeys
FieldOf(fields, name) == fields[CHOOSE i \in 1..Len(fields) : fields[i].name = name]

\* a faulty variant of SetField: the last writer wins
SetFieldOverwrite(fields, target, port) ==
    LET f == [name |-> target, type |-> port.type, default |-> port.default]
    IN  IF target \in FieldNames(fields)
        THEN [i \in 1..Len(fields) |-> IF fields[i].name = target THEN f ELSE fields[i]]
        ELSE Append(fields, f)

\* if (!fields[target]) fields[target] = {name: target, type, default}
SetField(fields, target, port) ==
    IF ~Truthy(fields, target)
    THEN Append(fields, [name |-> target, type |-> port.type, default |-> port.default])
    ELSE fields

RECURSIVE WalkPorts(_, _, _)
WalkPorts(fields, ports, bindings) ==
    IF ports = <<>> THEN fields
    ELSE LET port == Head(ports)
             target == normalizeBinding(Lookup(bindings, port.name), port.name)
         IN  WalkPorts(SetField(fields, target, port), Tail(ports), bindings)

StateFallback ==
    << [name |-> "messages", type |-> "list", default |-> List(<<>>)],
       [name |-> "task",     type |-> "str",  default |-> Str("")],
       [name |-> "round",    type |-> "int",  default |-> Num(0)] >>

RECURSIVE WalkStateNodes(_, _, _)
WalkStateNodes(fields, ns, metas) ==
    IF ns = <<>> THEN fields
    ELSE LET node == Head(ns) IN
         IF ~HasMeta(node, metas) THEN WalkStateNodes(fields, Tail(ns), metas)
         ELSE LET meta == FindMeta(node, metas)
                  afterIn  == WalkPorts(fields, normalizePorts(meta.inputs),
                                        node.input_bindings)
                  afterOut == WalkPorts(afterIn, normalizePorts(meta.outputs),
                                        node.output_bindings)
              IN  WalkStateNodes(afterOut, Tail(ns), metas)

\* a faulty variant of inferStateFields: no fallback when nothing was found
inferStateFieldsBare(ns, metas) == WalkStateNodes(<<>>, ns, metas)

inferStateFields(ns, metas) ==
    LET fields == WalkStateNodes(<<>>, ns, metas)
    IN  IF Len(fields) = 0 THEN StateFallback ELSE fields

HIDDEN_INIT_FIELDS ==
    {"tools_desc", "tools_schema", "round", "final_answer", "streaming_output",
     "score", "rounds", "score_history"}

\* a faulty variant of SetInputField: the hidden names are not skipped
SetInputFieldUnfiltered(fields, target, port) == SetField(fields, target, port)

\* if (HIDDEN_INIT_FIELDS.has(target)) return; if (!fields[target]) ...
SetInputField(fields, target, port) ==
    IF target \in HIDDEN_INIT_FIELDS THEN fields ELSE SetField(fields, target, port)

RECURSIVE WalkInputPorts(_, _, _)
WalkInputPorts(fields, ports, bindings) ==
    IF ports = <<>> THEN fields
    ELSE LET port == Head(ports)
             target == normalizeBinding(Lookup(bindings, port.name), port.name)
         IN  WalkInputPorts(SetInputField(fields, target, port), Tail(ports), bindings)

InputFallback ==
    << [name |-> "messages", type |-> "list", default |-> List(<<>>)],
       [name |-> "task",     type |-> "str",  default |-> Str("")] >>

RECURSIVE WalkInputNodes(_, _, _)
WalkInputNodes(fields, ns, metas) ==
    IF ns = <<>> THEN fields
    ELSE LET node == Head(ns) IN
         IF ~HasMeta(node, metas) THEN WalkInputNodes(fields, Tail(ns), metas)
         ELSE WalkInputNodes(
                  WalkInputPorts(fields, normalizePorts(FindMeta(node, metas).inputs),
                                 node.input_bindings),
                  Tail(ns), metas)

inferInputFields(ns, metas) ==
    LET fields == WalkInputNodes(<<>>, ns, metas)
    IN  IF Len(fields) = 0 THEN InputFallback ELSE fields

\* what a render holds of the schemas: nothing before the first render
NoMemo == [state |-> <<>>, input |-> <<>>]
NotMarked == [set |-> FALSE, nodes |-> <<>>, metas |-> <<>>, memo |-> NoMemo]

\* a faulty variant of Infer: the fields the calls before found are kept
InferAccumulating(st, left) ==
    [state |-> LET fields == WalkStateNodes(left.state, st.nodes, st.nodeMetas)
               IN  IF Len(fields) = 0 THEN StateFallback ELSE fields,
     input |-> LET fields == WalkInputNodes(left.input, st.nodes, st.nodeMetas)
               IN  IF Len(fields) = 0 THEN InputFallback ELSE fields]

\* the two useMemo calls of a render of st: each schema is computed from
\* st.nodes and st.nodeMetas, and not from what the calls before left
Infer(st, left) ==
    [state |-> inferStateFields(st.nodes, st.nodeMetas),
     input |-> inferInputFields(st.nodes, st.nodeMetas)]

inferredStateFields == inferStateFields(nodes, nodeMetas)
inferredInputFields == inferInputFields(nodes, nodeMetas)

-----------------------------------------------------------------------------
(***************************************************************************)
(* JSON text.  JSON.stringify and JSON.parse over the values the model     *)
(* uses: numbers of one digit, strings without quotes, true/false/null,    *)
(* {} and arrays of strings (the indentation stringify adds is left out).  *)
(***************************************************************************)
Digits == <<"0", "1", "2", "3", "4", "5", "6", "7", "8", "9">>
IsDigit(s) == \E i \in 1..10 : Digits[i] = s
DigitValue(s) == (CHOOSE i \in 1..10 : Digits[i] = s) - 1
Quote(s) == "\"" \o s \o "\""
IsQuoted(t) ==
    /\ Len(t) >= 2
    /\ SubSeq(t, 1, 1) = "\"" /\ SubSeq(t, Len(t), Len(t)) = "\""
    /\ \A i \in 2..(Len(t) - 1) : SubSeq(t, i, i) # "\""
Unquote(t) == SubSeq(t, 2, Len(t) - 1)

RECURSIVE JoinQuoted(_)
JoinQuoted(q) ==
    IF q = <<>> THEN ""
    ELSE IF Len(q) = 1 THEN Quote(q[1])
    ELSE Quote(q[1]) \o "," \o JoinQuoted(Tail(q))

JSONStringify(v) ==
    CASE v.k = "array"   -> "[" \o JoinQuoted(v.q) \o "]"
      [] v.k = "string"  -> Quote(v.s)
      [] v.k = "number"  -> Digits[v.n + 1]
      [] v.k = "boolean" -> IF v.b THEN "true" ELSE "false"
      [] v.k = "object"  -> "{}"
      [] OTHER           -> "null"

ParseFailed == JV("SyntaxError", "", 0, FALSE, <<>>)     \* JSON.parse throws
JSONParse(text) ==
    LET t == Trim(text) IN
    CASE t = "[]"    -> List(<<>>)
      [] t = "{}"    -> Dict
      [] t = "true"  -> Bool(TRUE)
      [] t = "false" -> Bool(FALSE)
      [] t = "null"  -> Null
      [] IsDigit(t)  -> Num(DigitValue(t))
      [] IsQuoted(t) -> Str(Unquote(t))
      [] Len(t) >= 4 /\ SubSeq(t, 1, 1) = "[" /\ SubSeq(t, Len(t), Len(t)) = "]"
            /\ IsQuoted(SubSeq(t, 2, Len(t) - 1))
                     -> List(<<Unquote(SubSeq(t, 2, Len(t) - 1))>>)
      [] OTHER       -> ParseFailed

\* Number(raw): a number stays, a boolean is 0 or 1, a string is parsed
Number(raw) ==
    CASE raw.k = "number"  -> raw
      [] raw.k = "boolean" -> Num(IF raw.b THEN 1 ELSE 0)
      [] raw.k = "string"  ->
            IF Trim(raw.s) = "" THEN Num(0)
            ELSE IF IsDigit(Trim(raw.s)) THEN Num(DigitValue(Trim(raw.s))) ELSE NaN
      [] raw.k = "array"   ->
            IF raw.q = <<>> THEN Num(0)
            ELSE IF Len(raw.q) = 1 /\ IsDigit(raw.q[1]) THEN Num(DigitValue(raw.q[1]))
            ELSE NaN
      [] OTHER             -> NaN

(***************************************************************************)
(* localStorage.  A slot that holds a serialized record is absent, holds   *)
(* text that does not parse, or holds the JSON text of a value; the two    *)
(* identifier slots hold the identifier itself ("" when the slot is        *)
(* absent: getItem gives null, which is falsy like "").                    *)
(***************************************************************************)
Json(v)    == [k |-> "json", v |-> v]            \* JSON.stringify(v), stored
Absent     == [k |-> "absent", v |-> <<>>]       \* getItem gives null
Corrupt    == [k |-> "corrupt", v |-> <<>>]      \* text JSON.parse throws on
JsonSlots  == {"nodes", "edges", "chatSessions", "lastRunMessages", "reuseMessages"}
EmptyStorage ==
    [nodes |-> Absent, edges |-> Absent, workflowId |-> "", chatSessions |-> Absent,
     activeChatSessionId |-> "", lastRunMessages |-> Absent, reuseMessages |-> Absent]

-----------------------------------------------------------------------------
(***************************************************************************)
(* The component state, as one record, and the effects a render runs.      *)
(***************************************************************************)
Cur ==
    [nodes |-> nodes, edges |-> edges, nodeMetas |-> nodeMetas,
     reactFlowInstance |-> reactFlowInstance, workflowId |-> workflowId,
     isRunning |-> isRunning, logs |-> logs, traceEvents |-> traceEvents,
     toolEvents |-> toolEvents, chatSessions |-> chatSessions,
     activeChatSessionId |-> activeChatSessionId, hasHydrated |-> hasHydrated,
     initialStateValues |-> initialStateValues, initialStateError |-> initialStateError,
     lastMessagesByWorkflow |-> lastMessagesByWorkflow,
     reuseMessagesByWorkflow |-> reuseMessagesByWorkflow]

InitialState ==
    [nodes |-> <<>>, edges |-> <<>>, nodeMetas |-> <<>>, reactFlowInstance |-> FALSE,
     workflowId |-> NullId, isRunning |-> FALSE, logs |-> <<>>, traceEvents |-> <<>>,
     toolEvents |-> <<>>, chatSessions |-> <<>>, activeChatSessionId |-> "",
     hasHydrated |-> FALSE, initialStateValues |-> <<>>, initialStateError |-> "",
     lastMessagesByWorkflow |-> <<>>, reuseMessagesByWorkflow |-> <<>>]

NewSession(id, title) ==
    [id |-> id, title |-> title, messages |-> <<>>, generatedWorkflow |-> "null"]
SessionIds(sessions) == {sessions[i].id : i \in 1..Len(sessions)}

\* a faulty variant of FallbackEffect: an active id that matches no session is left
FallbackOnlyWhenEmpty(st) ==
    IF st.hasHydrated /\ Len(st.chatSessions) = 0
    THEN [st EXCEPT !.chatSessions = <<NewSession("session-1", "Session 1")>>,
                    !.activeChatSessionId = "session-1"]
    ELSE st

\* the chat-session fallback effect
FallbackEffect(st) ==
    IF ~st.hasHydrated THEN st
    ELSE IF Len(st.chatSessions) = 0
    THEN [st EXCEPT !.chatSessions = <<NewSession("session-1", "Session 1")>>,
                    !.activeChatSessionId = "session-1"]
    ELSE IF st.activeChatSessionId = ""
            \/ st.activeChatSessionId \notin SessionIds(st.chatSessions)
    THEN [st EXCEPT !.activeChatSessionId = st.chatSessions[1].id]
    ELSE st

\* the value the form is seeded with for a field the operator has not touched
SeedValue(field) ==
    IF field.type \in {"list", "dict", "tuple"}
    THEN Str(JSONStringify(IF ~Nullish(field.default) THEN field.default
                           ELSE IF field.type = "dict" THEN Dict ELSE List(<<>>)))
    ELSE IF Nullish(field.default) THEN Str("") ELSE field.default

RECURSIVE SeedFields(_, _)
SeedFields(values, fields) ==
    IF fields = <<>> THEN values
    ELSE LET field == Head(fields) IN
         SeedFields(IF field.name \in DOMAIN values THEN values
                    ELSE [n \in DOMAIN values \cup {field.name} |->
                             IF n = field.name THEN SeedValue(field) ELSE values[n]],
                    Tail(fields))

\* the initialStateValues seeding effect
SeedEffect(st) ==
    [st EXCEPT !.initialStateValues =
                   SeedFields(@, inferInputFields(st.nodes, st.nodeMetas))]

\* a faulty variant of PersistEffects: the writes do not wait for hydration
PersistUnguarded(st, stor) ==
    [stor EXCEPT !.nodes = Json(st.nodes), !.edges = Json(st.edges),
                 !.chatSessions = Json(st.chatSessions),
                 !.lastRunMessages = Json(st.lastMessagesByWorkflow),
                 !.reuseMessages = Json(st.reuseMessagesByWorkflow)]

\* a faulty variant of PersistEffects: the identifier is not written
PersistWithoutId(st, stor) ==
    IF ~st.hasHydrated THEN stor
    ELSE [stor EXCEPT
            !.nodes = Json(st.nodes),
            !.edges = Json(st.edges),
            !.chatSessions = Json(st.chatSessions),
            !.activeChatSessionId =
                IF st.activeChatSessionId # "" THEN st.activeChatSessionId ELSE @,
            !.lastRunMessages = Json(st.lastMessagesByWorkflow),
            !.reuseMessages = Json(st.reuseMessagesByWorkflow)]

\* the seven persist effects: what storage holds once they have run for st
PersistEffects(st, stor) ==
    IF ~st.hasHydrated THEN stor
    ELSE [stor EXCEPT
            !.nodes = Json(st.nodes),
            !.edges = Json(st.edges),
            !.workflowId = IF st.workflowId # NullId THEN st.workflowId ELSE @,
            !.chatSessions = Json(st.chatSessions),
            !.activeChatSessionId =
                IF st.activeChatSessionId # "" THEN st.activeChatSessionId ELSE @,
            !.lastRunMessages = Json(st.lastMessagesByWorkflow),
            !.reuseMessages = Json(st.reuseMessagesByWorkflow)]

\* id and state are those of the WebSocket of the last run of the effect; made
\* lists every WebSocket the effect has created, with whether ws.close() was
\* called on it
NoChannel == [id |-> NullId, state |-> "none", made |-> <<>>]
\* return () => ws.close(): the cleanup of the effect run that made the last one
Cleanup(made) ==
    IF made = <<>> THEN made ELSE [made EXCEPT ![Len(made)].released = TRUE]

\* a faulty variant of ChannelEffect: the effect returns no cleanup
ChannelEffectLeaking(st, chan) ==
    IF st.workflowId = chan.id THEN chan
    ELSE IF st.workflowId = NullId THEN [NoChannel EXCEPT !.made = chan.made]
    ELSE [id |-> st.workflowId, state |-> "open",
          made |-> Append(chan.made, [id |-> st.workflowId, released |-> FALSE])]

\* the WebSocket effect: a change of workflowId closes the channel of the old
\* identifier and opens one for the new
ChannelEffect(st, chan) ==
    IF st.workflowId = chan.id THEN chan
    ELSE IF st.workflowId = NullId THEN [NoChannel EXCEPT !.made = Cleanup(chan.made)]
    ELSE [id |-> st.workflowId, state |-> "open",
          made |-> Append(Cleanup(chan.made),
                          [id |-> st.workflowId, released |-> FALSE])]

\* The effects of the render of st, in the order the component declares them.
\* The persist effects see st; what the fallback and seeding effects set is
\* rendered next, and persisted by that render's effects.  (The fallback effect
\* changes only the chat sessions and the seeding effect only the form.)
Settle(st) == SeedEffect(FallbackEffect(st))
StorageAfter(st, to, stor) == PersistEffects(to, PersistEffects(st, stor))

\* a render of st and its effects, the WebSocket effect left aside
Rendered(st, stor) ==
    /\ nodes' = st.nodes
    /\ edges' = st.edges
    /\ nodeMetas' = st.nodeMetas
    /\ reactFlowInstance' = st.reactFlowInstance
    /\ workflowId' = st.workflowId
    /\ isRunning' = st.isRunning
    /\ logs' = st.logs
    /\ traceEvents' = st.traceEvents
    /\ toolEvents' = st.toolEvents
    /\ chatSessions' = FallbackEffect(st).chatSessions
    /\ activeChatSessionId' = FallbackEffect(st).activeChatSessionId
    /\ hasHydrated' = st.hasHydrated
    /\ initialStateValues' = SeedEffect(st).initialStateValues
    /\ initialStateError' = st.initialStateError
    /\ lastMessagesByWorkflow' = st.lastMessagesByWorkflow
    /\ reuseMessagesByWorkflow' = st.reuseMessagesByWorkflow
    /\ storage' = StorageAfter(st, Cur', stor)
    /\ memo' = Infer(st, memo)

\* a render of st and its effects
Commit(st, stor) == Rendered(st, stor) /\ ws' = ChannelEffect(st, ws)

-----------------------------------------------------------------------------
(***************************************************************************)
(* Start-up: the first render's effects, the render of the state the       *)
(* hydration effect loaded, and the timer that lets the persist effects    *)
(* write.                                                                  *)
(***************************************************************************)
NewId(n) == "w" \o ToString(n)                   \* an identifier the server mints
\* a request to the collaborator: run is the onRun invocation that sent it (0
\* for the mount effect), payload the initial_state of a run request
Request(op, id, run, payload) == [op |-> op, id |-> id, run |-> run, payload |-> payload]

\* the component shows st
Shows(st) ==
    /\ nodes = st.nodes
    /\ edges = st.edges
    /\ nodeMetas = st.nodeMetas
    /\ reactFlowInstance = st.reactFlowInstance
    /\ workflowId = st.workflowId
    /\ isRunning = st.isRunning
    /\ logs = st.logs
    /\ traceEvents = st.traceEvents
    /\ toolEvents = st.toolEvents
    /\ chatSessions = st.chatSessions
    /\ activeChatSessionId = st.activeChatSessionId
    /\ hasHydrated = st.hasHydrated
    /\ initialStateValues = st.initialStateValues
    /\ initialStateError = st.initialStateError
    /\ lastMessagesByWorkflow = st.lastMessagesByWorkflow
    /\ reuseMessagesByWorkflow = st.reuseMessagesByWorkflow

\* rightPanelTab starts as 'properties': the chat panel is not mounted
NoPanel == [shown |-> FALSE, instance |-> 0, loading |-> FALSE, sends |-> <<>>]

\* the state of a page that has just been loaded over the storage stor, with
\* the server knowing the sessions in known
Fresh(stor, known) ==
    /\ Shows(InitialState)
    /\ storage = stor /\ boot = stor /\ typed = {} /\ marked = NotMarked /\ reported = <<>>
    /\ received = <<>> /\ panel = NoPanel
    /\ memo = Infer(InitialState, NoMemo)
    /\ server = [known |-> known, next |-> 2, creating |-> FALSE]
    /\ mount = "init" /\ queued = InitialState /\ timerPending = FALSE
    /\ requests = <<>> /\ calls = <<>> /\ clock = LoadTime /\ ws = NoChannel
    /\ lastOp = [op |-> "load"]

\* a page whose start-up has completed with st on screen and identifier id
Started(st, id) ==
    LET to == Settle([st EXCEPT !.hasHydrated = TRUE, !.workflowId = id]) IN
    /\ Shows(to)
    /\ storage = PersistEffects(to, EmptyStorage) /\ boot = EmptyStorage /\ typed = {}
    /\ marked = NotMarked /\ reported = <<>> /\ received = <<>>
    /\ panel = NoPanel
    /\ memo = Infer(to, NoMemo)
    /\ mount = "loaded" /\ queued = InitialState /\ timerPending = FALSE
    /\ server = [known |-> {id}, next |-> 2, creating |-> FALSE]
    /\ requests = <<>> /\ calls = <<>> /\ clock = LoadTime
    /\ ws = ChannelEffect(to, NoChannel)
    /\ lastOp = [op |-> "load"]

\* a stored record as the hydration effect reads it: try { set(JSON.parse(text)) }
\* catch { removeItem }
LoadSlot(slot, current) == IF slot.k = "json" THEN slot.v ELSE current
\* a faulty variant of ClearCorrupt: the catch block does not remove the item
KeepCorrupt(slot) == slot

ClearCorrupt(slot) == IF slot.k = "corrupt" THEN Absent ELSE slot

\* the state updates the hydration effect queues
HydratedState(st, stor) ==
    [st EXCEPT
       !.nodes = LoadSlot(stor.nodes, @),
       !.edges = LoadSlot(stor.edges, @),
       !.chatSessions =
           IF stor.chatSessions.k = "json" /\ Len(stor.chatSessions.v) > 0
           THEN stor.chatSessions.v ELSE @,
       !.activeChatSessionId =
           IF stor.activeChatSessionId # "" THEN stor.activeChatSessionId ELSE @,
       !.lastMessagesByWorkflow = LoadSlot(stor.lastRunMessages, @),
       !.reuseMessagesByWorkflow = LoadSlot(stor.reuseMessages, @),
       !.workflowId = IF stor.workflowId # "" THEN stor.workflowId ELSE @]

\* the storage the hydration effect leaves
HydratedStorage(stor) ==
    [stor EXCEPT !.nodes = ClearCorrupt(@), !.edges = ClearCorrupt(@),
                 !.chatSessions = ClearCorrupt(@),
                 !.lastRunMessages = ClearCorrupt(@),
                 !.reuseMessages = ClearCorrupt(@)]

\* The effects of the first render, in declaration order: the persist effects,
\* the fallback effect, the seeding effect, the hydration effect.
Mount ==
    /\ mount = "init"
    /\ LET stor == PersistEffects(Cur, storage) IN
       /\ queued' = HydratedState(SeedEffect(FallbackEffect(Cur)), stor)
       /\ storage' = HydratedStorage(stor)
       /\ IF stor.workflowId # ""
          THEN UNCHANGED <<server, requests>>
          ELSE /\ server' = [server EXCEPT !.creating = TRUE]
               /\ requests' = Append(requests, Request("create", NullId, 0, <<>>))
    /\ timerPending' = TRUE
    /\ mount' = "read"
    /\ lastOp' = [op |-> "mount"]
    /\ UNCHANGED <<graphVars, workflowId, viewVars, chatVars, hasHydrated, formVars,
                   reuseVars, calls, clock, ws, memo, boot, typed, marked, reported, received, panel>>

\* the render of the updates the hydration effect queued
Render ==
    /\ mount = "read"
    /\ Commit(queued, storage)
    /\ mount' = "loaded"
    /\ lastOp' = [op |-> "render"]
    /\ UNCHANGED <<queued, timerPending, server, requests, calls, clock, boot, typed, marked, reported, received, panel>>

\* setTimeout(() => setHasHydrated(true), 0) fires: before the render of the
\* loaded state its update joins the queue, after it it renders at once (an
\* update of a component that was torn down is dropped)
HydrationTimer ==
    /\ timerPending /\ mount # "unmounted"
    /\ timerPending' = FALSE
    /\ lastOp' = [op |-> "timer"]
    /\ IF mount = "read"
       THEN /\ queued' = [queued EXCEPT !.hasHydrated = TRUE]
            /\ UNCHANGED <<graphVars, workflowId, viewVars, chatVars, hasHydrated,
                           formVars, reuseVars, storage, ws, memo>>
       ELSE /\ Commit([Cur EXCEPT !.hasHydrated = TRUE], storage)
            /\ UNCHANGED queued
    /\ UNCHANGED <<mount, server, requests, calls, clock, boot, typed, marked, reported, received, panel>>

\* createWorkflow("Untitled Session") resolves: setWorkflowId, setItem
SessionCreated ==
    /\ server.creating /\ mount = "loaded"
    /\ LET id == NewId(server.next) IN
       /\ server' = [known |-> server.known \cup {id}, next |-> server.next + 1,
                     creating |-> FALSE]
       /\ Commit([Cur EXCEPT !.workflowId = id],
                 [storage EXCEPT !.workflowId = id])
       /\ lastOp' = [op |-> "created", id |-> id]
    /\ UNCHANGED <<mount, queued, timerPending, requests, calls, clock, boot, typed, marked, reported, received, panel>>

\* onInit={setReactFlowInstance}: the canvas reports its instance
onInit ==
    /\ mount = "loaded" /\ ~reactFlowInstance
    /\ Commit([Cur EXCEPT !.reactFlowInstance = TRUE], storage)
    /\ lastOp' = [op |-> "init"]
    /\ UNCHANGED <<mount, queued, timerPending, server, requests, calls, clock, boot, typed, marked, reported, received, panel>>

\* the component is torn down: the cleanup of the WebSocket effect runs
Unmount ==
    /\ mount = "loaded"
    /\ mount' = "unmounted"
    /\ ws' = [NoChannel EXCEPT !.made = Cleanup(ws.made)]
    /\ lastOp' = [op |-> "unmount"]
    /\ UNCHANGED <<graphVars, workflowId, viewVars, chatVars, formVars, reuseVars,
                   hasHydrated, queued, timerPending, storage, server, requests, calls,
                   clock, memo, boot, typed, marked, reported, received, panel>>

\* fetchNodes().then(setNodeMetas)
NodesFetched(registry) ==
    /\ mount = "loaded" /\ nodeMetas = <<>>
    /\ Commit([Cur EXCEPT !.nodeMetas = registry], storage)
    /\ lastOp' = [op |-> "fetched"]
    /\ UNCHANGED <<mount, queued, timerPending, server, requests, calls, clock, boot, typed, marked, reported, received, panel>>

-----------------------------------------------------------------------------
(***************************************************************************)
(* Graph edits.                                                            *)
(***************************************************************************)
Unchanged == UNCHANGED <<mount, queued, timerPending, server, requests, calls, boot, typed, marked, reported, received, panel>>

\* onDrop: a node of the dragged type, with no bindings, is added at the end
onDrop(type) ==
    /\ mount = "loaded" /\ Len(nodes) < MaxNodes /\ clock < LoadTime + MaxNodes
    /\ LET newNode == [id |-> type \o "_" \o ToString(clock),
                       type |-> getNodeVisualType(type), nodeType |-> type,
                       input_bindings |-> <<>>, output_bindings |-> <<>>,
                       status |-> Undefined]
       IN  Commit([Cur EXCEPT !.nodes = Append(@, newNode)], storage)
    /\ clock' = clock + 1
    /\ lastOp' = [op |-> "drop"]
    /\ Unchanged

\* onNodesChange with a removal: the node leaves the collection
RemoveNode(i) ==
    /\ mount = "loaded" /\ i \in 1..Len(nodes)
    /\ Commit([Cur EXCEPT !.nodes = SubSeq(@, 1, i - 1) \o SubSeq(@, i + 1, Len(@))],
              storage)
    /\ lastOp' = [op |-> "remove"]
    /\ UNCHANGED clock /\ Unchanged

\* next = {...current}; an empty text deletes the key, another sets it
ChangeBinding(current, portName, value) ==
    IF value = ""
    THEN [n \in DOMAIN current \ {portName} |-> current[n]]
    ELSE [n \in DOMAIN current \cup {portName} |->
             IF n = portName THEN value ELSE current[n]]

PortNamesOf(node, section) ==
    IF ~HasMeta(node, nodeMetas) THEN {}
    ELSE LET meta == FindMeta(node, nodeMetas)
             ports == IF section = "input_bindings" THEN meta.inputs ELSE meta.outputs
         IN  {ports[k].name : k \in 1..Len(ports)}

\* NodePanel's handleBindingChange on the selected node
handleBindingChange(i, section, portName, value) ==
    /\ mount = "loaded" /\ i \in 1..Len(nodes)
    /\ portName \in PortNamesOf(nodes[i], section)
    /\ Lookup(nodes[i][section], portName) # value
    /\ Commit([Cur EXCEPT !.nodes[i][section] = ChangeBinding(@, portName, value)],
              storage)
    /\ lastOp' = [op |-> "bind"]
    /\ UNCHANGED clock /\ Unchanged

-----------------------------------------------------------------------------
(***************************************************************************)
(* Schema inference over the graphs the canvas can build.                  *)
(***************************************************************************)
\* a registry as fetchNodes delivers it: typed ports, a port without type or
\* default, and two node types whose ports share names with different types
SchemaRegistry ==
    << [id |-> "Agent",
        inputs  |-> << [name |-> "x", type |-> "int", default |-> Num(0)],
                       [name |-> "q", type |-> "",    default |-> Undef] >>,
        outputs |-> << [name |-> "y", type |-> "list", default |-> List(<<>>)] >>],
       [id |-> "Tool",
        inputs  |-> << [name |-> "y", type |-> "str", default |-> Str("hi")] >>,
        outputs |-> << [name |-> "x", type |-> "bool", default |-> Bool(FALSE)] >>] >>
\* the node types of the palette, and one the registry does not know
SchemaTypes == {"Agent", "Tool", "Ghost"}
\* what the operator types into a binding box
BindingTexts == {"", "state.x", " y "}

InitSchema == Started(InitialState, "w1")

NextSchema ==
    \/ NodesFetched(SchemaRegistry)
    \/ \E type \in SchemaTypes : onDrop(type)
    \/ \E i \in 1..MaxNodes : RemoveNode(i)
    \/ \E i \in 1..MaxNodes, section \in {"input_bindings", "output_bindings"},
          portName \in {"x", "y"}, value \in BindingTexts :
          handleBindingChange(i, section, portName, value)

SpecSchema == InitSchema /\ [][NextSchema]_vars

\* the ports in the order the walk visits them, each under its canonical name
Visit(ports, bindings) ==
    [k \in 1..Len(ports) |->
        [name    |-> normalizeBinding(Lookup(bindings, ports[k].name), ports[k].name),
         type    |-> ports[k].type,
         default |-> ports[k].default]]

RECURSIVE Traversal(_, _)
Traversal(ns, metas) ==
    IF ns = <<>> THEN <<>>
    ELSE LET node == Head(ns) IN
         (IF HasMeta(node, metas)
          THEN Visit(normalizePorts(FindMeta(node, metas).inputs), node.input_bindings)
               \o Visit(normalizePorts(FindMeta(node, metas).outputs),
                        node.output_bindings)
          ELSE <<>>) \o Traversal(Tail(ns), metas)

FirstVisit(trav, name) ==
    trav[CHOOSE i \in 1..Len(trav) :
            /\ trav[i].name = name
            /\ \A j \in 1..(i - 1) : trav[j].name # name]

(* C10: every field of the full schema has the type and default of the     *)
(* first port, in traversal order (nodes in collection order, inputs       *)
(* before outputs, each in declared order), that normalizes to its name;   *)
(* and a field fixed by a prefix of the node collection is the same field  *)
(* whatever nodes and ports follow that prefix.                            *)
C10_FirstWriterWins ==
    LET trav   == Traversal(nodes, nodeMetas)
        fields == WalkStateNodes(<<>>, nodes, nodeMetas)
    IN  /\ \A i \in 1..Len(fields) : fields[i] = FirstVisit(trav, fields[i].name)
        /\ \A m \in 0..Len(nodes) :
             LET sofar == WalkStateNodes(<<>>, SubSeq(nodes, 1, m), nodeMetas)
             IN  \A i \in 1..Len(sofar) : FieldOf(inferredStateFields, sofar[i].name) = sofar[i]

C10_Witness ==
    LET trav == Traversal(nodes, nodeMetas)
    IN  \E i, j \in 1..Len(trav) :
           /\ i < j /\ trav[i].name = trav[j].name /\ trav[i].type # trav[j].type
           /\ \E k \in 1..Len(nodes) : nodes[k].input_bindings # <<>>

-----------------------------------------------------------------------------
(***************************************************************************)
(* Execution Event Reconciler: ws.onmessage.  A message is the parsed      *)
(* JSON of event.data; the handler's workflowId is the identifier its      *)
(* channel was opened for.                                                 *)
(***************************************************************************)
Msg(type, status, data, message, event, value) ==
    [type |-> type, status |-> status, data |-> data, message |-> message,
     event |-> event, value |-> value]
NodeUpdateMsg(data)   == Msg("node_update", "", data, "", "", Undef)
StatusMsg(label)      == Msg("status", label, <<>>, "", "", Undef)
LogMsg(text)          == Msg("log", "", <<>>, text, "", Undef)
StateUpdateMsg(value) == Msg("state_update", "", <<>>, "", "", value)  \* data.messages
TraceMsg(event)       == Msg("trace", "", <<>>, "", event, Undef)

\* a faulty variant of TerminalLabels: 'error' is not taken for the end of a run
TerminalLabelsWithoutError == {"completed", "stopped", "idle"}

\* ['completed', 'stopped', 'idle', 'error']
TerminalLabels == {"completed", "stopped", "idle", "error"}

\* a faulty variant of UpdateStatuses: a node the message does not mention
\* loses its status
UpdateStatusesReplacing(nds, data) ==
    [i \in 1..Len(nds) |->
        [nds[i] EXCEPT !.status = IF nds[i].id \in DOMAIN data THEN data[nds[i].id]
                                  ELSE Undefined]]

\* nds.map(n => msg.data[n.id] ? {...n, data: {...n.data, status}} : n)
UpdateStatuses(nds, data) ==
    [i \in 1..Len(nds) |->
        IF nds[i].id \in DOMAIN data /\ data[nds[i].id] # ""
        THEN [nds[i] EXCEPT !.status = data[nds[i].id]]
        ELSE nds[i]]

\* nds.map(n => ({...n, data: {...n.data, status: undefined}}))
ClearStatuses(nds) == [i \in 1..Len(nds) |-> [nds[i] EXCEPT !.status = Undefined]]

LogEntry(type, message) == [type |-> type, message |-> message]

\* a faulty variant of ApplyStatus: a label that is not running ends the run
ApplyStatusEnding(st, msg) ==
    LET logged == [st EXCEPT !.logs =
                       Append(@, LogEntry("status", "Workflow " \o msg.status))]
    IN  IF msg.status = "running" THEN [logged EXCEPT !.isRunning = TRUE]
        ELSE [logged EXCEPT !.isRunning = FALSE, !.nodes = ClearStatuses(@)]

ApplyStatus(st, msg) ==
    LET logged == [st EXCEPT !.logs =
                       Append(@, LogEntry("status", "Workflow " \o msg.status))]
    IN  IF msg.status = "running" THEN [logged EXCEPT !.isRunning = TRUE]
        ELSE IF msg.status \in TerminalLabels
        THEN [logged EXCEPT !.isRunning = FALSE, !.nodes = ClearStatuses(@)]
        ELSE logged

\* a faulty variant of ApplyStateUpdate: the map is replaced by the one entry
ApplyStateUpdateAlone(st, chanId, msg) ==
    IF chanId # NullId /\ msg.value.k = "array"
    THEN [st EXCEPT !.lastMessagesByWorkflow = [w \in {chanId} |-> msg.value.q]]
    ELSE st

ApplyStateUpdate(st, chanId, msg) ==
    IF chanId # NullId /\ msg.value.k = "array"
    THEN [st EXCEPT !.lastMessagesByWorkflow =
             [w \in DOMAIN @ \cup {chanId} |-> IF w = chanId THEN msg.value.q ELSE @[w]]]
    ELSE st

\* a faulty variant of ApplyTrace: the streaming tokens are traced too
ApplyTraceWithTokens(st, msg) ==
    LET entry  == [event |-> msg.event]
        traced == [st EXCEPT !.traceEvents = Append(@, entry)]
    IN  IF msg.event \in {"tool_call", "tool_result"}
        THEN [traced EXCEPT !.toolEvents = Append(@, entry)] ELSE traced

ApplyTrace(st, msg) ==
    LET entry  == [event |-> msg.event]
        traced == IF msg.event # "llm_token"
                  THEN [st EXCEPT !.traceEvents = Append(@, entry)] ELSE st
    IN  IF msg.event \in {"tool_call", "tool_result"}
        THEN [traced EXCEPT !.toolEvents = Append(@, entry)] ELSE traced

\* a faulty variant of ApplyMessage: the handler appends to the projections
\* its closure captured when the channel was opened
ApplyMessageStale(st, chanId, msg) ==
    LET old == [st EXCEPT !.logs = <<>>, !.traceEvents = <<>>, !.toolEvents = <<>>] IN
    CASE msg.type = "node_update"  -> [st EXCEPT !.nodes = UpdateStatuses(@, msg.data)]
      [] msg.type = "status"       -> ApplyStatus(old, msg)
      [] msg.type = "log"          ->
            [old EXCEPT !.logs = Append(@, LogEntry("log", msg.message))]
      [] msg.type = "state_update" -> ApplyStateUpdate(st, chanId, msg)
      [] msg.type = "trace"        -> ApplyTrace(old, msg)
      [] OTHER                     -> st

\* the body of ws.onmessage for a message that parsed
ApplyMessage(st, chanId, msg) ==
    CASE msg.type = "node_update"  -> [st EXCEPT !.nodes = UpdateStatuses(@, msg.data)]
      [] msg.type = "status"       -> ApplyStatus(st, msg)
      [] msg.type = "log"          ->
            [st EXCEPT !.logs = Append(@, LogEntry("log", msg.message))]
      [] msg.type = "state_update" -> ApplyStateUpdate(st, chanId, msg)
      [] msg.type = "trace"        -> ApplyTrace(st, msg)
      [] OTHER                     -> st

HasStatus(nds) == \E i \in 1..Len(nds) : nds[i].status # Undefined

\* the handler runs for a message that arrives on the open channel
Deliver(msg) ==
    /\ mount = "loaded" /\ ws.state = "open"
    /\ msg.type \in {"status", "log"} => Len(logs) < MaxLog
    /\ (msg.type = "trace" /\ msg.event # "llm_token") => Len(traceEvents) < MaxTrace
    /\ Commit(ApplyMessage(Cur, ws.id, msg), storage)
    /\ reported' = CASE msg.type = "node_update" ->
                            [id \in (DOMAIN reported \cup DOMAIN msg.data)
                                        \cap {nodes[i].id : i \in 1..Len(nodes)} |->
                                IF id \in DOMAIN msg.data THEN msg.data[id]
                                ELSE reported[id]]
                      [] msg.type = "status" -> <<>>
                      [] OTHER -> reported
    /\ lastOp' = [op |-> "message", type |-> msg.type, status |-> msg.status,
                  dirty |-> HasStatus(nodes), event |-> msg.event,
                  value |-> msg.value]
    /\ UNCHANGED <<mount, queued, timerPending, server, requests, calls, clock, boot,
                   typed, marked, panel>>

\* a message arrives on the open channel
OnMessage(msg) == Deliver(msg) /\ UNCHANGED received

MaxReceived == 3       \* messages of a delivery that is followed in order

\* a faulty variant of OnMessageInOrder: a message equal to the one before it
\* is dropped
OnMessageOnce(msg) ==
    /\ Len(received) < MaxReceived
    /\ IF received # <<>> /\ received[Len(received)] = msg
       THEN /\ mount = "loaded" /\ ws.state = "open"
            /\ Commit(Cur, storage)
            /\ UNCHANGED <<reported, lastOp, mount, queued, timerPending, server,
                           requests, calls, clock, boot, typed, marked, panel>>
       ELSE Deliver(msg)
    /\ received' = Append(received, msg)

\* a message arrives on the open channel and the delivery is followed
OnMessageInOrder(msg) ==
    /\ Len(received) < MaxReceived
    /\ Deliver(msg)
    /\ received' = Append(received, msg)

\* onClear of the log panel: the three projections are emptied
onClear ==
    /\ mount = "loaded"
    /\ Commit([Cur EXCEPT !.logs = <<>>, !.traceEvents = <<>>, !.toolEvents = <<>>],
              storage)
    /\ lastOp' = [op |-> "clear"]
    /\ UNCHANGED clock /\ Unchanged

\* a faulty variant of Disconnected: the view model is reset with the channel
DisconnectedReset(st) ==
    [st EXCEPT !.nodes = ClearStatuses(@), !.logs = <<>>, !.traceEvents = <<>>,
               !.toolEvents = <<>>, !.lastMessagesByWorkflow = <<>>]

\* what ws.onerror and ws.onclose do to the component's state: they write to
\* the console and set nothing
Disconnected(st) == st

\* ws.onerror: the channel reports an error
OnError ==
    /\ mount = "loaded" /\ ws.state = "open"
    /\ Rendered(Disconnected(Cur), storage)
    /\ lastOp' = [op |-> "error", again |-> lastOp.op \in {"error", "close"}]
    /\ UNCHANGED <<ws, clock>> /\ Unchanged

\* ws.onclose: the channel is closed; no message arrives on it any more
OnClose ==
    /\ mount = "loaded" /\ ws.state = "open"
    /\ Rendered(Disconnected(Cur), storage)
    /\ ws' = [ws EXCEPT !.state = "closed"]
    /\ lastOp' = [op |-> "close", again |-> lastOp.op \in {"error", "close"}]
    /\ UNCHANGED clock /\ Unchanged

\* A malformed message arrives on the open channel.  Text that does not parse
\* makes JSON.parse throw inside the handler's try block, and the catch block
\* logs it.  A node_update without data passes setNodes an updater that reads
\* msg.data[n.id]: React runs the updater when it renders, outside the try
\* block, and msg.data[n.id] throws there as soon as there is a node to map;
\* no error boundary is above Flow, so the component tree is torn down.
OnMalformed(kind) ==
    /\ mount = "loaded" /\ ws.state = "open"
    /\ kind \in {"text", "node_update"}
    /\ lastOp' = [op |-> "malformed", kind |-> kind]
    /\ IF kind = "node_update" /\ nodes # <<>>
       THEN /\ mount' = "unmounted"
            /\ ws' = [NoChannel EXCEPT !.made = Cleanup(ws.made)]
            /\ UNCHANGED <<graphVars, workflowId, viewVars, chatVars, formVars,
                           reuseVars, hasHydrated, storage, memo>>
       ELSE /\ Rendered(Cur, storage)
            /\ UNCHANGED <<mount, ws>>
    /\ UNCHANGED <<queued, timerPending, server, requests, calls, clock, boot, typed,
                   marked, reported, received, panel>>

-----------------------------------------------------------------------------
(***************************************************************************)
(* Node and run status updates over the graphs of up to MaxNodes nodes.    *)
(***************************************************************************)
EventNode(i) ==
    [id |-> "Agent_" \o ToString(i), type |-> "action", nodeType |-> "Agent",
     input_bindings |-> <<>>, output_bindings |-> <<>>, status |-> Undefined]
EventGraph(k) == [i \in 1..k |-> EventNode(i)]
EventIds == {EventNode(i).id : i \in 1..MaxNodes}
\* the statuses the runner reports for a node (FAILURE is handled like these)
NodeStatuses == {"RUNNING", "SUCCESS"}
NodeUpdates ==
    UNION {[ids -> NodeStatuses] : ids \in SUBSET EventIds \ {{}}}
\* the run-status labels of the runner, and one the handler does not know
StatusLabels == {"running", "completed", "stopped", "idle", "error", "paused"}

InitEvents ==
    \E k \in 0..MaxNodes : Started([InitialState EXCEPT !.nodes = EventGraph(k)], "w1")

NextEvents ==
    \/ \E data \in NodeUpdates : OnMessage(NodeUpdateMsg(data))
    \/ \E label \in StatusLabels : OnMessage(StatusMsg(label))

SpecEvents == InitEvents /\ [][NextEvents]_vars

(* C2: right after a run-status update whose label is completed, stopped,  *)
(* idle or error has been applied, every node of the graph has its status  *)
(* unset, whatever node-status updates came before.                        *)
C2_TerminalClearsStatuses ==
    (/\ lastOp.op = "message" /\ lastOp.type = "status"
     /\ lastOp.status \in {"completed", "stopped", "idle", "error"})
    => \A i \in 1..Len(nodes) : nodes[i].status = Undefined

(* C16: reported holds, for every node id, the value of the last           *)
(* node-status update that mentioned it since the last run-status update.  *)
(* A node-status update leaves every node with the status reported for it, *)
(* which for a node the message mentions is the value in the message, and  *)
(* leaves a node no update has mentioned, and everything else of every     *)
(* node, as it was.                                                        *)
C16_NodeUpdateLastWriteWins ==
    [][(lastOp'.op = "message" /\ lastOp'.type = "node_update") =>
          /\ Len(nodes') = Len(nodes)
          /\ \A i \in 1..Len(nodes) :
                nodes'[i] =
                   [nodes[i] EXCEPT !.status =
                       IF nodes[i].id \in DOMAIN reported'
                       THEN reported'[nodes[i].id] ELSE @]]_vars

C16_Witness ==
    /\ lastOp.op = "message" /\ lastOp.type = "node_update"
    /\ DOMAIN reported = {"Agent_1", "Agent_2"} /\ reported["Agent_1"] = "RUNNING"
    /\ Len(nodes) = 2 /\ nodes[1].status = "RUNNING" /\ nodes[2].status = "SUCCESS"
    /\ Len(logs) > 0

C2_Witness ==
    /\ lastOp.op = "message" /\ lastOp.type = "status" /\ lastOp.status = "error"
    /\ lastOp.dirty /\ Len(nodes) = MaxNodes /\ Len(logs) = 2

-----------------------------------------------------------------------------
(***************************************************************************)
(* Hydration over every combination of absent, unparsable and well-formed  *)
(* stored records.                                                         *)
(***************************************************************************)
StoredSession(n, msgs) ==
    [id |-> "session-" \o ToString(n), title |-> "Session", messages |-> msgs,
     generatedWorkflow |-> "null"]
StoredNodes    == Json(<<[EventNode(1) EXCEPT !.status = "RUNNING"]>>)
StoredEdges    == Json(<<[id |-> "e1", source |-> "Agent_1", target |-> "Agent_1"]>>)
StoredChats(k) == Json([i \in 1..k |-> StoredSession(i, <<"user:hi">>)])
StoredLast     == Json([w \in {"w1"} |-> <<"user:hi", "model:yo">>])
StoredReuse    == Json([w \in {"w1"} |-> TRUE])

StoredStates ==
    [nodes : {Absent, Corrupt, StoredNodes},
     edges : {Absent, Corrupt, StoredEdges},
     workflowId : {"", "w1"},
     chatSessions : {Absent, Corrupt, StoredChats(1), StoredChats(MaxStored)},
     activeChatSessionId : {"", "session-2", "session-7"},
     lastRunMessages : {Absent, Corrupt, StoredLast},
     reuseMessages : {Absent, Corrupt, StoredReuse}]

InitHydrate == \E stor \in StoredStates : Fresh(stor, {"w1"})

NextHydrate ==
    \/ Mount
    \/ Render
    \/ HydrationTimer
    \/ SessionCreated

SpecHydrate == InitHydrate /\ [][NextHydrate]_vars

\* the value hydration gives a record: the stored value, or the default
Loaded(slot) == IF slot.k = "json" THEN slot.v ELSE <<>>

(* C3: once the hydration effect has run, every stored record that does    *)
(* not parse has had its slot cleared and every other slot is as it was;   *)
(* once its updates are rendered, every record that parsed is in memory    *)
(* with exactly its stored value and every other record has its default    *)
(* (an empty chat-session list is then replaced by the fallback session    *)
(* when the persist gate opens), and a stored session identifier is kept.  *)
C3_CorruptRecordsIsolated ==
    /\ (mount = "read" \/ (mount = "loaded" /\ ~hasHydrated)) =>
          \A slot \in JsonSlots :
             storage[slot] = IF boot[slot].k = "corrupt" THEN Absent ELSE boot[slot]
    /\ mount = "loaded" =>
          /\ nodes = Loaded(boot.nodes)
          /\ edges = Loaded(boot.edges)
          /\ lastMessagesByWorkflow = Loaded(boot.lastRunMessages)
          /\ reuseMessagesByWorkflow = Loaded(boot.reuseMessages)
          /\ chatSessions =
                IF Loaded(boot.chatSessions) = <<>> /\ hasHydrated
                THEN <<NewSession("session-1", "Session 1")>>
                ELSE Loaded(boot.chatSessions)
          /\ boot.workflowId # "" => workflowId = boot.workflowId

C3_Witness ==
    /\ mount = "loaded" /\ ~hasHydrated
    /\ boot.nodes = Corrupt /\ boot.edges = Corrupt
    /\ boot.chatSessions = StoredChats(MaxStored) /\ boot.workflowId = "w1"
    /\ boot.lastRunMessages = Corrupt /\ boot.reuseMessages = StoredReuse
    /\ nodes = <<>> /\ chatSessions = StoredChats(MaxStored).v /\ workflowId = "w1"
    /\ storage.nodes = Absent

(* C4: a stored record that parses and is not itself the default is never  *)
(* replaced in storage during start-up: in both orders of the render of    *)
(* the hydrated state and the timer that opens the persist gate, the       *)
(* persist effects write what hydration loaded, never the empty defaults.  *)
C4_NoDefaultOverwrite ==
    \A slot \in JsonSlots :
        (boot[slot].k = "json" /\ boot[slot].v # <<>>) => storage[slot] = boot[slot]

C4_Witness ==
    /\ hasHydrated /\ lastOp.op = "render"
    /\ \A slot \in JsonSlots : boot[slot].k = "json" /\ storage[slot] = boot[slot]
    /\ nodes # <<>>

-----------------------------------------------------------------------------
(***************************************************************************)
(* Chat sessions.  Date.now() is read as the clock, which moves on with    *)
(* every reading: two sessions are never created in the same millisecond.  *)
(***************************************************************************)
SessionId(now) == "session-" \o ToString(now)
Without(sessions, id) == SelectSeq(sessions, LAMBDA x : x.id # id)

createChatSession ==
    /\ mount = "loaded" /\ Len(chatSessions) < MaxSessions
    /\ clock < LoadTime + MaxStamps
    /\ LET created == NewSession(SessionId(clock),
                                 "Session " \o ToString(Len(chatSessions) + 1))
       IN  Commit([Cur EXCEPT !.chatSessions = <<created>> \o @,
                              !.activeChatSessionId = created.id], storage)
    /\ clock' = clock + 1
    /\ lastOp' = [op |-> "createChat"]
    /\ Unchanged

\* a faulty variant of DeletedSessions: the last session goes and nothing replaces it
DeletedNoFallback(sessions, id, now) == Without(sessions, id)

\* the list setChatSessions' updater returns
DeletedSessions(sessions, id, now) ==
    IF Len(Without(sessions, id)) = 0
    THEN <<NewSession(SessionId(now), "Session 1")>>
    ELSE Without(sessions, id)

\* the identifier the updater leaves active
DeletedActive(sessions, active, id, now) ==
    IF Len(Without(sessions, id)) = 0 THEN SessionId(now)
    ELSE IF active = id THEN Without(sessions, id)[1].id
    ELSE active

\* deleteChatSession(id), for a session of the list
deleteChatSession(id) ==
    /\ mount = "loaded" /\ id \in SessionIds(chatSessions)
    /\ clock < LoadTime + MaxStamps
    /\ Commit([Cur EXCEPT
                 !.chatSessions = DeletedSessions(chatSessions, id, clock),
                 !.activeChatSessionId =
                     DeletedActive(chatSessions, activeChatSessionId, id, clock)],
              storage)
    /\ clock' = IF Len(Without(chatSessions, id)) = 0 THEN clock + 1 ELSE clock
    /\ lastOp' = [op |-> "deleteChat", id |-> id, only |-> Len(chatSessions) = 1]
    /\ Unchanged

\* what ChatPanel passes to onUpdateSession: a proposal, no proposal
Updaters == {"propose", "applied"}
ApplyUpdater(u, session) ==
    IF u = "propose" THEN [session EXCEPT !.generatedWorkflow = "workflow"]
    ELSE [session EXCEPT !.generatedWorkflow = "null"]

\* prev.map(s => s.id === id ? updater(s) : s)
updateChatSession(id, u) ==
    /\ mount = "loaded" /\ id \in SessionIds(chatSessions)
    /\ Commit([Cur EXCEPT !.chatSessions =
                  [i \in 1..Len(@) |-> IF @[i].id = id THEN ApplyUpdater(u, @[i])
                                       ELSE @[i]]], storage)
    /\ lastOp' = [op |-> "updateChat"]
    /\ UNCHANGED clock /\ Unchanged

\* onSelectSession = setActiveChatSessionId, from the list ChatPanel shows
selectChatSession(id) ==
    /\ mount = "loaded" /\ id \in SessionIds(chatSessions)
    /\ Commit([Cur EXCEPT !.activeChatSessionId = id], storage)
    /\ lastOp' = [op |-> "selectChat"]
    /\ UNCHANGED clock /\ Unchanged

ChatStoredStates ==
    {[EmptyStorage EXCEPT !.workflowId = "w1", !.chatSessions = chats,
                          !.activeChatSessionId = active] :
        chats \in {Absent, Corrupt, StoredChats(1), StoredChats(MaxStored)},
        active \in {"", "session-1", "session-2", "session-7"}}
ChatIds == {SessionId(n) : n \in 1..(LoadTime + MaxStamps)}

InitChat == \E stor \in ChatStoredStates : Fresh(stor, {"w1"})

NextChat ==
    \/ Mount
    \/ Render
    \/ HydrationTimer
    \/ createChatSession
    \/ \E id \in ChatIds : deleteChatSession(id)
    \/ \E id \in ChatIds, u \in Updaters : updateChatSession(id, u)
    \/ \E id \in ChatIds : selectChatSession(id)

SpecChat == InitChat /\ [][NextChat]_vars

(* C8: once the persist gate is open at least one chat session exists, and *)
(* right after the only remaining session was deleted the list holds       *)
(* exactly one session, which is not the deleted one, has no messages and  *)
(* no pending proposal, and is the active one.                             *)
C8_AtLeastOneSession ==
    /\ hasHydrated => Len(chatSessions) >= 1
    /\ (lastOp.op = "deleteChat" /\ lastOp.only) =>
          /\ Len(chatSessions) = 1
          /\ chatSessions[1].id # lastOp.id
          /\ chatSessions[1].messages = <<>>
          /\ chatSessions[1].generatedWorkflow = "null"
          /\ activeChatSessionId = chatSessions[1].id

C8_Witness ==
    /\ hasHydrated /\ lastOp.op = "deleteChat" /\ lastOp.only
    /\ boot.chatSessions = StoredChats(1)
    /\ Len(chatSessions) = 1 /\ chatSessions[1].id = SessionId(LoadTime)

(* C9: once the persist gate is open, the active chat session identifier   *)
(* is the id of exactly one session of the list.                           *)
C9_ExactlyOneActive ==
    hasHydrated =>
       Cardinality({i \in 1..Len(chatSessions) :
                       chatSessions[i].id = activeChatSessionId}) = 1

C9_Witness ==
    /\ hasHydrated /\ boot.activeChatSessionId = "session-7"
    /\ boot.chatSessions = StoredChats(MaxStored)
    /\ lastOp.op = "deleteChat" /\ lastOp.id = "session-1"
    /\ activeChatSessionId = "session-2"

-----------------------------------------------------------------------------
(***************************************************************************)
(* The initial-state form and the payload builder.  A payload and the      *)
(* form's values are functions from field names to JavaScript values.      *)
(***************************************************************************)
\* a faulty variant of Blank: an empty value is treated like any other
NeverBlank(raw) == FALSE
\* raw === '' || raw === null || raw === undefined
Blank(raw) == Nullish(raw) \/ (raw.k = "string" /\ raw.s = "")
ValueOf(values, name) == IF name \in DOMAIN values THEN values[name] ELSE Undef
Put(state, name, v) ==
    [n \in DOMAIN state \cup {name} |-> IF n = name THEN v ELSE state[n]]
\* a faulty variant of UserTurn: the text is submitted as it was typed
UserTurnBare(text) == JV("string", text, 0, FALSE, <<>>)
UserTurn(text) == JV("array", "user", 0, FALSE, <<text>>)  \* [{role: 'user', content: raw}]
HasField(fields, name) == \E i \in 1..Len(fields) : fields[i].name = name

Built(state, provided, error) ==
    [state |-> state, messagesProvided |-> provided, error |-> error]

\* the loop over inferredInputFields; it stops at the first error
RECURSIVE BuildFields(_, _, _, _)
BuildFields(state, provided, fields, values) ==
    IF fields = <<>> THEN Built(state, provided, "")
    ELSE
    LET field == Head(fields)
        raw   == ValueOf(values, field.name)
        rest  == Tail(fields)
        isMessages == field.name = "messages"
    IN
    IF field.type = "bool" THEN
        BuildFields(IF raw.k = "boolean" THEN Put(state, field.name, raw) ELSE state,
                    provided, rest, values)
    ELSE IF field.type \in {"int", "float"} THEN
        IF Blank(raw) THEN BuildFields(state, provided, rest, values)
        ELSE IF Number(raw) = NaN
        THEN Built(state, provided, "Field '" \o field.name \o "' expects a number")
        ELSE BuildFields(Put(state, field.name, Number(raw)), provided, rest, values)
    ELSE IF field.type \in {"list", "dict", "tuple"} THEN
        IF Blank(raw) THEN BuildFields(state, provided, rest, values)
        ELSE IF isMessages /\ raw.k = "string" THEN
            BuildFields(Put(state, field.name,
                            IF JSONParse(raw.s) # ParseFailed THEN JSONParse(raw.s)
                            ELSE UserTurn(raw.s)),
                        TRUE, rest, values)
        ELSE IF raw.k = "string" THEN
            IF JSONParse(raw.s) = ParseFailed
            THEN Built(state, provided, "Field '" \o field.name \o "' expects JSON")
            ELSE BuildFields(Put(state, field.name, JSONParse(raw.s)),
                             provided \/ isMessages, rest, values)
        ELSE BuildFields(Put(state, field.name, raw), provided \/ isMessages,
                         rest, values)
    ELSE IF Blank(raw) THEN BuildFields(state, provided, rest, values)
    ELSE BuildFields(Put(state, field.name, raw), provided \/ isMessages, rest, values)

\* the object the builder returns: { state } or { error }
StateResult(state) == [key \in {"state"} |-> state]
ErrorResult(error) == [key \in {"error"} |-> error]

\* !messagesProvided && hasMessagesField && workflowId, reuse is on, and the
\* last conversation is a non-empty array
ReuseApplies(provided, fields, wid, reuseMap, lastMap) ==
    /\ ~provided /\ HasField(fields, "messages") /\ wid # NullId
    /\ wid \in DOMAIN reuseMap /\ reuseMap[wid]
    /\ wid \in DOMAIN lastMap /\ Len(lastMap[wid]) > 0

\* reuseMessagesByWorkflow[workflowId], lastMessagesByWorkflow[workflowId]: the
\* lookup in a map that is null raises a TypeError
ReuseLookupThrows(provided, fields, wid, reuseMap, lastMap) ==
    /\ ~provided /\ HasField(fields, "messages") /\ wid # NullId
    /\ (reuseMap = Null \/ lastMap = Null)

buildInitialState(fields, values, wid, reuseMap, lastMap) ==
    LET built == BuildFields(<<>>, FALSE, fields, values) IN
    IF built.error # "" THEN ErrorResult(built.error)
    ELSE IF ReuseLookupThrows(built.messagesProvided, fields, wid, reuseMap, lastMap)
    THEN [key \in {"thrown"} |-> "TypeError"]    \* the exception leaves onRun
    ELSE IF ReuseApplies(built.messagesProvided, fields, wid, reuseMap, lastMap)
    THEN StateResult(Put(built.state, "messages", List(lastMap[wid])))
    ELSE StateResult(built.state)

\* what the operator can enter into the control the form shows for a field
Entries(field) ==
    CASE field.type = "bool" -> {Bool(TRUE), Bool(FALSE)}
      [] field.type \in {"int", "float"} -> {Str(""), Str("5")}
      [] field.type \in {"list", "dict", "tuple"} ->
            {Str(""), Str("[\"hi\"]"), Str("hello")}
      [] OTHER -> {Str(""), Str("go")}

\* onChange of the control of field i: {...prev, [field.name]: value}
setInitialStateValue(i, value) ==
    /\ mount = "loaded" /\ i \in 1..Len(inferredInputFields)
    /\ value \in Entries(inferredInputFields[i])
    /\ Commit([Cur EXCEPT !.initialStateValues =
                  Put(@, inferredInputFields[i].name, value)], storage)
    /\ typed' = typed \cup {inferredInputFields[i].name}
    /\ lastOp' = [op |-> "type"]
    /\ UNCHANGED <<mount, queued, timerPending, server, requests, calls, clock, boot, marked, reported, received, panel>>

\* onChange of the reuse checkbox, which is shown when there is an identifier
\* and a messages field
setReuseMessages(checked) ==
    /\ mount = "loaded" /\ workflowId # NullId
    /\ HasField(inferredInputFields, "messages")
    /\ Commit([Cur EXCEPT !.reuseMessagesByWorkflow = Put(@, workflowId, checked)],
              storage)
    /\ lastOp' = [op |-> "reuse"]
    /\ UNCHANGED clock /\ Unchanged

-----------------------------------------------------------------------------
(***************************************************************************)
(* The run session.  An onRun invocation is a record of calls: the values  *)
(* its closure holds (wid, result), the identifier a recovery minted, the  *)
(* await it is suspended at (pc) and the state the channel was in at the   *)
(* click.  The collaborator knows a set of identifiers and can forget one; *)
(* a request can also fail on the way.                                     *)
(***************************************************************************)
MaxRuns == 1           \* onRun invocations

Call(pc, wid, result, minted, channel) ==
    [pc |-> pc, wid |-> wid, result |-> result, minted |-> minted, channel |-> channel]

\* a faulty variant of HasError: the error of the builder is not looked at
ErrorIgnored(result) == FALSE

\* if (result.error)
HasError(result) == "error" \in DOMAIN result

\* result.state, which is undefined in an error result
Payload(result) == IF "state" \in DOMAIN result THEN result.state ELSE <<>>

Settled(call) == call.pc \in {"rejected", "started", "failed", "thrown"}

\* the click on Run, up to the first await that waits for the collaborator;
\* limit bounds the number of invocations
Invoke(limit) ==
    /\ mount = "loaded" /\ ~isRunning /\ workflowId # NullId
    /\ Len(calls) < limit
    /\ LET result == buildInitialState(inferredInputFields, initialStateValues,
                                       workflowId, reuseMessagesByWorkflow,
                                       lastMessagesByWorkflow)
           run == Len(calls) + 1
       IN  IF "thrown" \in DOMAIN result
           THEN /\ Commit(Cur, storage)
                /\ calls' = Append(calls, Call("thrown", workflowId, result, NullId, ws.state))
                /\ UNCHANGED requests
           ELSE IF HasError(result)
           THEN /\ Commit([Cur EXCEPT !.initialStateError = result.error], storage)
                /\ calls' = Append(calls, Call("rejected", workflowId, result, NullId, ws.state))
                /\ UNCHANGED requests
           ELSE /\ Commit([Cur EXCEPT !.initialStateError = ""], storage)
                /\ IF reactFlowInstance
                   THEN /\ requests' = Append(requests,
                                              Request("save", workflowId, run, <<>>))
                        /\ calls' = Append(calls, Call("save", workflowId, result, NullId, ws.state))
                   ELSE /\ requests' = Append(requests,
                               Request("run", workflowId, run, Payload(result)))
                        /\ calls' = Append(calls, Call("run", workflowId, result, NullId, ws.state))
    /\ lastOp' = [op |-> "run", run |-> Len(calls) + 1]
    /\ UNCHANGED <<mount, queued, timerPending, server, clock, boot, typed, marked, reported, received, panel>>

\* the operator clicks Run when the invocation before has ended
onRun == (\A i \in 1..Len(calls) : Settled(calls[i])) /\ Invoke(MaxRuns)

Idle == UNCHANGED <<graphVars, workflowId, viewVars, chatVars, formVars, reuseVars,
                    hydraVars, storage, clock, ws, memo, boot, typed, marked, reported, received, panel>>

\* runWorkflow(workflowId, result.state): the workflowId of onRun's closure
RunTarget(call) == call.wid

\* the first saveWorkflow settles: saved, 404, or another failure, which is
\* logged; only the 404 is recovered from
SaveSettled(i, failed) ==
    /\ i \in 1..Len(calls) /\ calls[i].pc = "save"
    /\ IF ~failed /\ calls[i].wid \notin server.known
       THEN /\ requests' = Append(requests, Request("create", NullId, i, <<>>))
            /\ calls' = [calls EXCEPT ![i].pc = "create"]
       ELSE /\ requests' = Append(requests, Request("run", RunTarget(calls[i]), i,
                                                    Payload(calls[i].result)))
            /\ calls' = [calls EXCEPT ![i].pc = "run"]
    /\ lastOp' = [op |-> "saved", run |-> i, failed |-> failed]
    /\ UNCHANGED server /\ Idle

\* createWorkflow("Recovered Workflow") resolves: setWorkflowId(newWf.id), and
\* the save is sent again under newWf.id
WorkflowCreated(i) ==
    /\ i \in 1..Len(calls) /\ calls[i].pc = "create"
    /\ LET id == NewId(server.next) IN
       /\ server' = [server EXCEPT !.known = @ \cup {id}, !.next = @ + 1]
       /\ Commit([Cur EXCEPT !.workflowId = id], storage)
       /\ requests' = Append(requests, Request("save", id, i, <<>>))
       /\ calls' = [calls EXCEPT ![i].pc = "resave", ![i].minted = id]
       /\ lastOp' = [op |-> "recovered", run |-> i, id |-> id]
    /\ UNCHANGED <<mount, queued, timerPending, clock, boot, typed, marked, reported, received, panel>>

\* the second saveWorkflow resolves: onSave returns and onRun posts the run
Resaved(i) ==
    /\ i \in 1..Len(calls) /\ calls[i].pc = "resave"
    /\ calls[i].minted \in server.known
    /\ requests' = Append(requests, Request("run", RunTarget(calls[i]), i,
                                            Payload(calls[i].result)))
    /\ calls' = [calls EXCEPT ![i].pc = "run"]
    /\ lastOp' = [op |-> "resaved", run |-> i]
    /\ UNCHANGED server /\ Idle

\* runWorkflow settles: the collaborator starts the run if it knows the identifier
RunSettled(i) ==
    /\ i \in 1..Len(calls) /\ calls[i].pc = "run"
    /\ calls' = [calls EXCEPT ![i].pc =
                    IF RunTarget(calls[i]) \in server.known THEN "started" ELSE "failed"]
    /\ lastOp' = [op |-> "submitted", run |-> i]
    /\ UNCHANGED <<server, requests>> /\ Idle

\* a faulty variant of RequestFails: a retry that fails starts the recovery again
RequestFailsRetrying(i) ==
    /\ i \in 1..Len(calls) /\ calls[i].pc \in {"create", "resave", "run"}
    /\ IF calls[i].pc = "resave"
       THEN /\ requests' = Append(requests, Request("create", NullId, i, <<>>))
            /\ calls' = [calls EXCEPT ![i].pc = "create"]
       ELSE /\ calls' = [calls EXCEPT ![i].pc = "failed"]
            /\ UNCHANGED requests
    /\ lastOp' = [op |-> "failed", run |-> i]
    /\ UNCHANGED server /\ Idle

\* a request made inside onSave's catch block, or the run request, fails:
\* nothing catches it and the invocation ends
RequestFails(i) ==
    /\ i \in 1..Len(calls) /\ calls[i].pc \in {"create", "resave", "run"}
    /\ calls' = [calls EXCEPT ![i].pc = "failed"]
    /\ lastOp' = [op |-> "failed", run |-> i]
    /\ UNCHANGED <<server, requests>> /\ Idle

\* the collaborator forgets the identifier the page holds
Expire(id) ==
    /\ id \in server.known /\ id = workflowId
    /\ server' = [server EXCEPT !.known = @ \ {id}]
    /\ lastOp' = [op |-> "expire"]
    /\ UNCHANGED <<requests, calls>> /\ Idle

-----------------------------------------------------------------------------
(***************************************************************************)
(* Runs of a started page over three graphs: the empty graph, whose form   *)
(* holds the fallback fields; a node whose int port is bound to messages;  *)
(* a node with a dict port and a bool port.                                *)
(***************************************************************************)
RunRegistry ==
    << [id |-> "Counter",
        inputs  |-> << [name |-> "count", type |-> "int", default |-> Num(0)] >>,
        outputs |-> << >>],
       [id |-> "Planner",
        inputs  |-> << [name |-> "plan",   type |-> "dict", default |-> Undef],
                       [name |-> "strict", type |-> "bool", default |-> Bool(FALSE)] >>,
        outputs |-> << >>] >>
RunNode(type, bindings) ==
    [id |-> type \o "_1", type |-> getNodeVisualType(type), nodeType |-> type,
     input_bindings |-> bindings, output_bindings |-> <<>>, status |-> Undefined]
RunGraphs ==
    { <<>>,
      <<RunNode("Counter", [n \in {"count"} |-> "state.messages"])>>,
      <<RunNode("Planner", <<>>)>> }
\* the conversations a state snapshot carries, and a snapshot without one
Snapshots == {List(<<"m1">>), List(<<>>), Undef}

\* the operator fills in the form, snapshots arrive, Run is clicked
InitForm ==
    \E graph \in RunGraphs :
        Started([InitialState EXCEPT !.nodes = graph, !.nodeMetas = RunRegistry,
                                     !.reactFlowInstance = TRUE], "w1")

FormEntries == UNION {Entries([type |-> t]) : t \in {"bool", "int", "list", "str"}}

NextForm ==
    \/ \E i \in 1..2, value \in FormEntries : setInitialStateValue(i, value)
    \/ \E checked \in BOOLEAN : setReuseMessages(checked)
    \/ \E value \in Snapshots : OnMessage(StateUpdateMsg(value))
    \/ onRun

SpecForm == InitForm /\ [][NextForm]_vars

\* Run is clicked over the Planner's form and the collaborator answers
InitRun ==
    Started([InitialState EXCEPT !.nodes = <<RunNode("Planner", <<>>)>>,
                                 !.nodeMetas = RunRegistry,
                                 !.reactFlowInstance = TRUE], "w1")

NextRun ==
    \/ \E i \in 1..2, value \in FormEntries : setInitialStateValue(i, value)
    \/ onRun
    \/ \E i \in 1..MaxRuns, failed \in BOOLEAN : SaveSettled(i, failed)
    \/ \E i \in 1..MaxRuns : WorkflowCreated(i)
    \/ \E i \in 1..MaxRuns : Resaved(i)
    \/ \E i \in 1..MaxRuns : RunSettled(i)
    \/ \E i \in 1..MaxRuns : RequestFails(i)
    \/ \E id \in {NewId(n) : n \in 1..(MaxRuns + 1)} : Expire(id)

SpecRun == InitRun /\ [][NextRun]_vars

\* the last conversation recorded for the current identifier
PriorConversation ==
    IF workflowId \in DOMAIN lastMessagesByWorkflow
    THEN lastMessagesByWorkflow[workflowId] ELSE <<>>
ReuseEnabled ==
    workflowId \in DOMAIN reuseMessagesByWorkflow /\ reuseMessagesByWorkflow[workflowId]
SameResult(a, b) ==
    /\ DOMAIN a = DOMAIN b
    /\ "error" \in DOMAIN a => a.error = b.error
    /\ "state" \in DOMAIN a =>
          /\ DOMAIN a.state = DOMAIN b.state
          /\ \A n \in DOMAIN a.state : a.state[n] = b.state[n]

(* C1: in an onRun invocation whose save was answered 404, a replacement   *)
(* identifier is minted, becomes the persisted current identifier, the     *)
(* save is sent again under it, and every run request of that invocation   *)
(* is sent under the replacement, never under the identifier reported      *)
(* unknown.                                                                *)
C1_RunUnderReplacement ==
    /\ lastOp.op = "recovered" =>
          /\ workflowId = lastOp.id /\ storage.workflowId = lastOp.id
          /\ lastOp.id # calls[lastOp.run].wid
          /\ requests[Len(requests)] = Request("save", lastOp.id, lastOp.run, <<>>)
    /\ \A k \in 1..Len(requests) :
          (requests[k].op = "run" /\ calls[requests[k].run].minted # NullId) =>
              /\ requests[k].id = calls[requests[k].run].minted
              /\ requests[k].id # calls[requests[k].run].wid

(* C5: the builder's result holds either a payload or an error, never      *)
(* both; an onRun invocation whose result is an error ends there: none of  *)
(* the requests sent to the collaborator, save or run, is its own.         *)
C5_ErrorSendsNothing ==
    \A i \in 1..Len(calls) :
        /\ DOMAIN calls[i].result \in {{"state"}, {"error"}}
        /\ "error" \in DOMAIN calls[i].result =>
              /\ calls[i].pc = "rejected"
              /\ \A k \in 1..Len(requests) : requests[k].run # i

C5_Witness ==
    /\ lastOp.op = "run" /\ calls[lastOp.run].pc = "rejected"
    /\ calls[lastOp.run].result = ErrorResult("Field 'plan' expects JSON")
    /\ initialStateError = "Field 'plan' expects JSON"
    /\ "strict" \in typed /\ requests = <<>>

(* C6: right after the builder has run: if the form has a messages field,  *)
(* its value is blank, reuse is on for the current identifier and a        *)
(* non-empty prior conversation is recorded for it, the payload's messages *)
(* is that conversation; if there is no messages field, or the operator    *)
(* has typed a value that is not blank into it, or reuse is off, or no     *)
(* non-empty prior conversation is recorded, the result is the one the     *)
(* builder gives with reuse off.                                           *)
C6_ReuseExactlyWhen ==
    lastOp.op = "run" =>
        LET result == calls[lastOp.run].result
            plain  == buildInitialState(inferredInputFields, initialStateValues,
                                        workflowId, <<>>, lastMessagesByWorkflow)
            has    == HasField(inferredInputFields, "messages")
            blank  == Blank(ValueOf(initialStateValues, "messages"))
            prior  == Len(PriorConversation) > 0
        IN  /\ (has /\ blank /\ ReuseEnabled /\ prior /\ "state" \in DOMAIN result) =>
                  /\ "messages" \in DOMAIN result.state
                  /\ result.state.messages = List(PriorConversation)
            /\ (\/ ~has \/ ~ReuseEnabled \/ ~prior
                \/ ("messages" \in typed /\ ~blank)) => SameResult(result, plain)

(* C19: a state snapshot whose conversation is a non-empty sequence makes   *)
(* it the last conversation recorded for the session; a snapshot whose     *)
(* conversation is an empty sequence, or is absent or not a sequence,      *)
(* leaves the last conversation recorded for the session as it was.        *)
C19_SnapshotOverwritesWhenNonEmpty ==
    [][(lastOp'.op = "message" /\ lastOp'.type = "state_update") =>
          IF lastOp'.value.k = "array" /\ lastOp'.value.q # <<>>
          THEN PriorConversation' = lastOp'.value.q
          ELSE PriorConversation' = PriorConversation]_vars

(* C7: when Run is clicked with a messages field in the form that the      *)
(* operator has not typed into, reuse on for the current identifier and a  *)
(* non-empty conversation delivered for it by a state snapshot, the        *)
(* payload onRun builds to submit has that conversation as its messages.   *)
C7_ReuseWithoutTyping ==
    (/\ lastOp.op = "run" /\ "messages" \notin typed
     /\ HasField(inferredInputFields, "messages")
     /\ ReuseEnabled /\ Len(PriorConversation) > 0
     /\ "state" \in DOMAIN calls[lastOp.run].result) =>
        /\ "messages" \in DOMAIN calls[lastOp.run].result.state
        /\ calls[lastOp.run].result.state.messages = List(PriorConversation)

-----------------------------------------------------------------------------
(***************************************************************************)
(* Schema inference over graphs whose ports reach the hidden names: by a   *)
(* port's own name, by a binding with the state. prefix, by a binding      *)
(* with blanks around it.                                                  *)
(***************************************************************************)
HiddenRegistry ==
    << [id |-> "Scorer",
        inputs  |-> << [name |-> "round", type |-> "int", default |-> Num(0)],
                       [name |-> "task",  type |-> "str", default |-> Str("")] >>,
        outputs |-> << [name |-> "score", type |-> "float", default |-> Num(0)] >>],
       [id |-> "Echo",
        inputs  |-> << [name |-> "text", type |-> "str", default |-> Undef] >>,
        outputs |-> << >>] >>
HiddenTexts == {"", "state.final_answer", " rounds "}

InitHidden == Started(InitialState, "w1")

NextHidden ==
    \/ NodesFetched(HiddenRegistry)
    \/ \E type \in {"Scorer", "Echo"} : onDrop(type)
    \/ \E i \in 1..MaxNodes : RemoveNode(i)
    \/ \E i \in 1..MaxNodes, section \in {"input_bindings", "output_bindings"},
          portName \in {"task", "text", "score"}, value \in HiddenTexts :
          handleBindingChange(i, section, portName, value)

SpecHidden == InitHidden /\ [][NextHidden]_vars

(* C11: no field of the input schema is named tools_desc, tools_schema,    *)
(* round, final_answer, streaming_output, score, rounds or score_history,  *)
(* whether the graph is empty (fallback schema) or a port reaches the name *)
(* by its own name or by its binding; and every such name a port           *)
(* normalizes to is a field of the full schema.                            *)
C11_DenylistHidden ==
    LET deny == {"tools_desc", "tools_schema", "round", "final_answer",
                 "streaming_output", "score", "rounds", "score_history"}
        trav == Traversal(nodes, nodeMetas)
    IN  /\ \A i \in 1..Len(inferredInputFields) : inferredInputFields[i].name \notin deny
        /\ \A k \in 1..Len(trav) :
              trav[k].name \in deny => trav[k].name \in FieldNames(inferredStateFields)

C11_Witness ==
    /\ {"round", "final_answer", "rounds"} \subseteq FieldNames(inferredStateFields)
    /\ \E i \in 1..Len(nodes) :
          /\ Lookup(nodes[i].input_bindings, "text") = " rounds "
    /\ \E i \in 1..Len(nodes) :
          /\ Lookup(nodes[i].input_bindings, "task") = "state.final_answer"
    /\ inferredInputFields = InputFallback

-----------------------------------------------------------------------------
(***************************************************************************)
(* Two inferences from the same nodes and registry.  One render is singled *)
(* out (Mark) with the schemas it computed; the graph is then edited, so   *)
(* that other inferences come in between, and can come back to the nodes   *)
(* and registry of the marked render.                                      *)
(***************************************************************************)
Mark ==
    /\ mount = "loaded" /\ ~marked.set
    /\ marked' = [set |-> TRUE, nodes |-> nodes, metas |-> nodeMetas, memo |-> memo]
    /\ lastOp' = [op |-> "mark"]
    /\ UNCHANGED <<graphVars, workflowId, viewVars, chatVars, formVars, reuseVars,
                   hydraVars, storage, server, requests, calls, clock, ws, memo,
                   boot, typed, reported, received, panel>>

InitInfer == Started(InitialState, "w1")

NextInfer ==
    \/ NodesFetched(SchemaRegistry)
    \/ \E type \in {"Agent", "Tool"} : onDrop(type)
    \/ \E i \in 1..MaxNodes : RemoveNode(i)
    \/ \E i \in 1..MaxNodes, value \in {"", "state.y"} :
          handleBindingChange(i, "input_bindings", "x", value)
    \/ Mark

SpecInfer == InitInfer /\ [][NextInfer]_vars

AsSet(fields) == {fields[i] : i \in 1..Len(fields)}

-----------------------------------------------------------------------------
(***************************************************************************)
(* The Binding Normalizer over the texts of a binding box: blanks before   *)
(* and after, the state. prefix alone, followed by a name, by blanks, in   *)
(* the middle, in another case.  Two Scorer nodes are on the canvas and the *)
(* operator edits the binding of their output port, which no form field    *)
(* is made from.                                                           *)
(***************************************************************************)
BindingCores == {"", "x", "a b", "state.", "state. y", "xstate.y", "State.x"}
BindingSamples ==
    {l \o c \o r : l \in {"", " "}, c \in BindingCores, r \in {"", " "}}

InitBinding ==
    Started([InitialState EXCEPT
               !.nodeMetas = HiddenRegistry,
               !.nodes = <<RunNode("Scorer", <<>>),
                           [RunNode("Scorer", <<>>) EXCEPT !.id = "Scorer_2"]>>], "w1")

NextBinding ==
    \E i \in 1..2, value \in BindingSamples :
        handleBindingChange(i, "output_bindings", "score", value)

SpecBinding == InitBinding /\ [][NextBinding]_vars

Blank1(t, k) == SubSeq(t, k, k) = " "
\* r is t without the blanks at its two ends
IsTrimOf(r, t) ==
    /\ r = "" \/ (~Blank1(r, 1) /\ ~Blank1(r, Len(r)))
    /\ \E i \in 1..(Len(t) + 1), j \in 0..Len(t) :
          /\ r = SubSeq(t, i, j)
          /\ \A k \in 1..(i - 1) : Blank1(t, k)
          /\ \A k \in (j + 1)..Len(t) : Blank1(t, k)

(* C13: for every node, the canonical name of its port is the port's name  *)
(* when the binding is empty or absent, the text after state. when the     *)
(* binding starts with state., and otherwise the binding without its       *)
(* leading and trailing blanks; the name the full schema records for the   *)
(* first node's port is that canonical name.                               *)
C13_NormalizeBinding ==
    /\ \A i \in 1..Len(nodes) :
          LET b == Lookup(nodes[i].output_bindings, "score")
              r == normalizeBinding(b, "score")
          IN  /\ b = "" => r = "score"
              /\ (b # "" /\ StartsWith(b, "state.")) => "state." \o r = b
              /\ (b # "" /\ ~StartsWith(b, "state.")) => IsTrimOf(r, b)
    /\ memo.state[3].name =
          normalizeBinding(Lookup(nodes[1].output_bindings, "score"), "score")

C13_Witness ==
    /\ Lookup(nodes[1].output_bindings, "score") = "state. y "
    /\ memo.state[3].name = " y "
    /\ Lookup(nodes[2].output_bindings, "score") = " xstate.y "
    /\ memo.state[4].name = "xstate.y"

-----------------------------------------------------------------------------
(***************************************************************************)
(* The payload builder over a form with a number field, two structured     *)
(* fields (one of them messages) and a bool field.  A Noter node gives     *)
(* the field limit the type str; once the node is removed the Drafter's    *)
(* int port types it, and the field keeps the text that was typed.         *)
(***************************************************************************)
BuildRegistry ==
    << [id |-> "Noter",
        inputs  |-> << [name |-> "limit", type |-> "str", default |-> Undef] >>,
        outputs |-> << >>],
       [id |-> "Drafter",
        inputs  |-> << [name |-> "limit",    type |-> "int",  default |-> Undef],
                       [name |-> "outline",  type |-> "dict", default |-> Undef],
                       [name |-> "messages", type |-> "list", default |-> Undef],
                       [name |-> "strict",   type |-> "bool", default |-> Undef] >>,
        outputs |-> << >>] >>

InitBuild ==
    Started([InitialState EXCEPT
               !.nodes = <<RunNode("Noter", <<>>), RunNode("Drafter", <<>>)>>,
               !.nodeMetas = BuildRegistry, !.reactFlowInstance = TRUE], "w1")

\* the operator fills in the form, removes the Noter or not, and clicks Run
NextBuild ==
    \/ \E i \in 1..4, value \in FormEntries :
          calls = <<>> /\ setInitialStateValue(i, value)
    \/ calls = <<>> /\ Len(nodes) = 2 /\ RemoveNode(1)
    \/ onRun

SpecBuild == InitBuild /\ [][NextBuild]_vars

IsNumberField(field) == field.type \in {"int", "float"}
IsStructuredField(field) == field.type \in {"list", "dict", "tuple"}
IsEmptyRaw(raw) == raw \in {Str(""), Null, Undef}
RawOf(field) == ValueOf(initialStateValues, field.name)
\* the field's value stops the build
Offends(field) ==
    \/ IsNumberField(field) /\ ~IsEmptyRaw(RawOf(field)) /\ Number(RawOf(field)) = NaN
    \/ /\ IsStructuredField(field) /\ field.name # "messages"
       /\ RawOf(field).k = "string" /\ RawOf(field).s # ""
       /\ JSONParse(RawOf(field).s) = ParseFailed
NoneOffendsBefore(i) == \A k \in 1..(i - 1) : ~Offends(inferredInputFields[k])
LastResult == calls[lastOp.run].result
Succeeded == "state" \in DOMAIN LastResult
Failed == "error" \in DOMAIN LastResult

(* C14: right after the builder has run, for every list, dict or tuple     *)
(* field holding a non-empty text: if the text parses, a successful build  *)
(* has the parsed value under the field's name; if it does not parse and   *)
(* the field is messages, the build is not failed for that field and a     *)
(* successful build has the single user turn made of the text; if it does  *)
(* not parse and the field has another name, the build fails, and the      *)
(* error names the field when no field before it in the form stops the     *)
(* build first.                                                            *)
C14_StructuredField ==
    lastOp.op = "run" =>
        \A i \in 1..Len(inferredInputFields) :
            LET field == inferredInputFields[i]
                raw   == RawOf(field)
                named == "Field '" \o field.name \o "' expects JSON"
            IN  (IsStructuredField(field) /\ raw.k = "string" /\ raw.s # "") =>
                    IF JSONParse(raw.s) # ParseFailed
                    THEN /\ Succeeded => /\ field.name \in DOMAIN LastResult.state
                                         /\ LastResult.state[field.name] = JSONParse(raw.s)
                         /\ Failed => LastResult.error # named
                    ELSE IF field.name = "messages"
                    THEN /\ Succeeded =>
                              /\ "messages" \in DOMAIN LastResult.state
                              /\ LastResult.state["messages"] =
                                     JV("array", "user", 0, FALSE, <<raw.s>>)
                         /\ Failed => LastResult.error # named
                         /\ (\A k \in 1..Len(inferredInputFields) :
                                ~Offends(inferredInputFields[k])) => Succeeded
                    ELSE /\ Failed
                         /\ NoneOffendsBefore(i) => LastResult.error = named

C14_Witness ==
    /\ lastOp.op = "run" /\ Len(nodes) = 1 /\ Succeeded
    /\ initialStateValues["messages"] = Str("hello")
    /\ initialStateValues["outline"] = Str("[\"hi\"]")
    /\ initialStateValues["limit"] = Str("5")
    /\ LastResult.state["messages"] = JV("array", "user", 0, FALSE, <<"hello">>)
    /\ LastResult.state["outline"] = List(<<"hi">>)
    /\ LastResult.state["limit"] = Num(5)

(* C15: right after the builder has run, for every int or float field: an  *)
(* empty value leaves the field out of a successful payload and does not   *)
(* fail the build; a value that parses as a number is in a successful      *)
(* payload as that number; any other value fails the build, and the error  *)
(* names the field when no field before it in the form stops the build     *)
(* first.  For every bool field: a successful payload has the value when   *)
(* it is a boolean and has no such field otherwise, and no error names a   *)
(* bool field.                                                             *)
C15_NumberAndBool ==
    lastOp.op = "run" =>
        \A i \in 1..Len(inferredInputFields) :
            LET field == inferredInputFields[i]
                raw   == RawOf(field)
                named == "Field '" \o field.name \o "' expects a number"
            IN  /\ IsNumberField(field) =>
                    IF IsEmptyRaw(raw)
                    THEN /\ Succeeded => field.name \notin DOMAIN LastResult.state
                         /\ Failed => LastResult.error # named
                    ELSE IF Number(raw) # NaN
                    THEN /\ Succeeded => /\ field.name \in DOMAIN LastResult.state
                                         /\ LastResult.state[field.name] = Number(raw)
                         /\ Failed => LastResult.error # named
                    ELSE /\ Failed
                         /\ NoneOffendsBefore(i) => LastResult.error = named
                /\ field.type = "bool" =>
                    /\ (Succeeded /\ raw.k = "boolean") =>
                           /\ field.name \in DOMAIN LastResult.state
                           /\ LastResult.state[field.name] = raw
                    /\ (Succeeded /\ raw.k # "boolean") =>
                           field.name \notin DOMAIN LastResult.state
                    /\ Failed =>
                           /\ LastResult.error # named
                           /\ LastResult.error # "Field '" \o field.name \o "' expects JSON"

C15_Witness ==
    /\ lastOp.op = "run" /\ Len(nodes) = 1 /\ Failed
    /\ initialStateValues["limit"] = Str("go")
    /\ initialStateValues["outline"] = Str("hello")
    /\ initialStateValues["strict"] = Bool(TRUE)
    /\ LastResult.error = "Field 'limit' expects a number"
    /\ initialStateError = "Field 'limit' expects a number"

-----------------------------------------------------------------------------
(***************************************************************************)
(* The log, trace and tool projections under log lines, run-status         *)
(* updates, trace events of every kind, and the Clear button of the log    *)
(* panel.                                                                  *)
(***************************************************************************)
TraceKinds == {"llm_token", "llm_call", "tool_call", "tool_result"}

InitStream == Started(InitialState, "w1")

NextStream ==
    \/ OnMessage(LogMsg("hi"))
    \/ OnMessage(StatusMsg("running"))
    \/ \E event \in TraceKinds : OnMessage(TraceMsg(event))
    \/ onClear

SpecStream == InitStream /\ [][NextStream]_vars

IsPrefix(s, t) == Len(s) <= Len(t) /\ SubSeq(t, 1, Len(s)) = s

(* C17: in every step each of the log, trace and tool projections has its  *)
(* earlier value as a prefix of its later value.                           *)
C17_ProjectionsOnlyGrow ==
    [][/\ IsPrefix(logs, logs')
       /\ IsPrefix(traceEvents, traceEvents')
       /\ IsPrefix(toolEvents, toolEvents')]_vars

IsToolEntry(entry) == entry.event \in {"tool_call", "tool_result"}

(* C18: a trace event leaves the log as it was; a streaming token leaves   *)
(* the trace and tool projections as they were; an event of another kind   *)
(* adds one entry of its kind at the end of the trace projection, and a    *)
(* tool_call or tool_result one at the end of the tool projection too, any *)
(* other kind leaving the tool projection as it was; after every step the  *)
(* tool projection is the tool_call and tool_result entries of the trace   *)
(* projection, in its order.                                               *)
C18_TraceKinds ==
    [][/\ (lastOp'.op = "message" /\ lastOp'.type = "trace") =>
             /\ logs' = logs
             /\ traceEvents' = IF lastOp'.event = "llm_token" THEN traceEvents
                               ELSE traceEvents \o <<[event |-> lastOp'.event]>>
             /\ toolEvents' = IF lastOp'.event \in {"tool_call", "tool_result"}
                              THEN toolEvents \o <<[event |-> lastOp'.event]>>
                              ELSE toolEvents
       /\ toolEvents' = SelectSeq(traceEvents', IsToolEntry)]_vars

C18_Witness ==
    /\ lastOp.op = "message" /\ lastOp.type = "trace" /\ lastOp.event = "llm_token"
    /\ traceEvents = <<[event |-> "llm_call"], [event |-> "tool_result"]>>
    /\ toolEvents = <<[event |-> "tool_result"]>>
    /\ Len(logs) = 2

-----------------------------------------------------------------------------
(***************************************************************************)
(* A session whose channel has delivered a node status, a log line, a      *)
(* tool call and a conversation, and then reports errors and closes.       *)
(***************************************************************************)
InitChannel == Started([InitialState EXCEPT !.nodes = EventGraph(1)], "w1")

NextChannel ==
    \/ \E status \in NodeStatuses :
          OnMessage(NodeUpdateMsg([id \in {EventNode(1).id} |-> status]))
    \/ OnMessage(LogMsg("hi"))
    \/ OnMessage(TraceMsg("tool_call"))
    \/ OnMessage(StateUpdateMsg(List(<<"m1">>)))
    \/ \E kind \in {"text", "node_update"} : OnMalformed(kind)
    \/ OnError
    \/ OnClose

SpecChannel == InitChannel /\ [][NextChannel]_vars

(* C20: a step in which the channel reports an error or closes, the first  *)
(* or one more in a row, leaves the nodes with their statuses, the log,    *)
(* trace and tool projections and the last-conversation map as they were.  *)
C20_DisconnectKeepsView ==
    [][lastOp'.op \in {"error", "close"} =>
          /\ nodes' = nodes
          /\ logs' = logs
          /\ traceEvents' = traceEvents
          /\ toolEvents' = toolEvents
          /\ lastMessagesByWorkflow' = lastMessagesByWorkflow]_vars

C20_Witness ==
    /\ lastOp.op = "close" /\ lastOp.again /\ ws.state = "closed"
    /\ nodes[1].status = "SUCCESS" /\ Len(logs) = 2
    /\ traceEvents # <<>> /\ toolEvents = traceEvents
    /\ "w1" \in DOMAIN lastMessagesByWorkflow
    /\ lastMessagesByWorkflow["w1"] = <<"m1">>

-----------------------------------------------------------------------------
(***************************************************************************)
(* The life of a session identifier: a page is loaded over a storage that  *)
(* holds an identifier or none, the operator clicks Run once start-up is   *)
(* over, the collaborator forgets identifiers and requests fail, the       *)
(* channel errors and closes, and the component is torn down, after which  *)
(* nothing more is followed.                                               *)
(***************************************************************************)
InitSession ==
    \E id \in {"", "w1"} : Fresh([EmptyStorage EXCEPT !.workflowId = id], {"w1"})

SessionIdsMinted == {NewId(n) : n \in 1..(MaxRuns + 2)}

NextSession ==
    \/ Mount
    \/ Render
    \/ HydrationTimer
    \/ SessionCreated
    \/ onInit
    \/ hasHydrated /\ onRun
    \/ \E i \in 1..MaxRuns, failed \in BOOLEAN : mount = "loaded" /\ SaveSettled(i, failed)
    \/ \E i \in 1..MaxRuns : mount = "loaded" /\ WorkflowCreated(i)
    \/ \E i \in 1..MaxRuns : mount = "loaded" /\ Resaved(i)
    \/ \E i \in 1..MaxRuns : mount = "loaded" /\ RunSettled(i)
    \/ \E i \in 1..MaxRuns : mount = "loaded" /\ RequestFails(i)
    \/ \E id \in SessionIdsMinted : mount = "loaded" /\ Expire(id)
    \/ OnError
    \/ OnClose
    \/ Unmount

SpecSession == InitSession /\ [][NextSession]_vars

(* C21: every channel was opened for an identifier; a channel that has not *)
(* been closed by the effect's cleanup is the last one made, the component *)
(* is mounted and the channel is keyed by the current session identifier;  *)
(* while an identifier is held by the mounted component, the last channel  *)
(* made is that one.                                                       *)
C21_OneChannel ==
    /\ \A k \in 1..Len(ws.made) :
          /\ ws.made[k].id # NullId
          /\ ~ws.made[k].released =>
                /\ k = Len(ws.made) /\ mount # "unmounted"
                /\ ws.made[k].id = workflowId
    /\ (mount = "loaded" /\ workflowId # NullId) =>
          /\ ws.made # <<>>
          /\ ws.made[Len(ws.made)] = [id |-> workflowId, released |-> FALSE]
    /\ workflowId = NullId => ws.made = <<>>

C21_Witness ==
    /\ mount = "unmounted" /\ Len(ws.made) = 2
    /\ ws.made[1] = [id |-> "w1", released |-> TRUE]
    /\ ws.made[2].released /\ ws.made[2].id = workflowId /\ workflowId # "w1"
    /\ boot.workflowId = "w1"

\* the requests of kind op that invocation run has sent (0: the mount effect)
Sent(op, run) == {k \in 1..Len(requests) : requests[k].op = op /\ requests[k].run = run}

(* C24: every click on Run has sent at most one create-session request, at *)
(* most one save besides the first and only after that create, under the   *)
(* identifier it minted, and at most one run request; an invocation that   *)
(* ended in a failure has not sent more.                                   *)
C24_RecoveryAtMostOnce ==
    \A i \in 1..Len(calls) :
        /\ Cardinality(Sent("create", i)) <= 1
        /\ Cardinality(Sent("save", i)) <= 1 + Cardinality(Sent("create", i))
        /\ Cardinality(Sent("run", i)) <= 1
        /\ \A k \in Sent("save", i) :
              requests[k].id # calls[i].wid =>
                 /\ requests[k].id = calls[i].minted
                 /\ \E c \in Sent("create", i) : c < k

C24_Witness ==
    /\ Len(calls) = 1 /\ calls[1].pc = "failed" /\ lastOp.op = "failed"
    /\ Cardinality(Sent("create", 1)) = 1 /\ Cardinality(Sent("save", 1)) = 2
    /\ Sent("run", 1) = {} /\ workflowId = calls[1].minted

(* C25: before the mount effect no create-session request has been made;   *)
(* after it, none if storage held an identifier and exactly one otherwise; *)
(* once the loaded state is rendered a stored identifier is held; and      *)
(* whenever an identifier is held, also after a replacement, the stored    *)
(* identifier equals it.                                                   *)
C25_IdentifierPersisted ==
    /\ Cardinality(Sent("create", 0)) =
          IF mount = "init" \/ boot.workflowId # "" THEN 0 ELSE 1
    /\ (boot.workflowId # "" /\ mount \in {"loaded", "unmounted"}) => workflowId # NullId
    /\ workflowId # NullId => storage.workflowId = workflowId

C25_Witness ==
    /\ boot.workflowId = "" /\ Cardinality(Sent("create", 0)) = 1
    /\ lastOp.op = "recovered" /\ workflowId = lastOp.id
    /\ storage.workflowId = workflowId /\ workflowId \notin {"w1", "w2"}

(* C29: when Run was clicked while the channel of the session was closed   *)
(* and the collaborator has started the run under the same, still current  *)
(* identifier, a channel of that identifier is open.                       *)
C29_ReconnectOnRun ==
    \A i \in 1..Len(calls) :
        (/\ mount = "loaded" /\ calls[i].channel = "closed"
         /\ calls[i].pc = "started" /\ calls[i].wid = workflowId)
            => ws.state = "open"

(* C22: a step in which a malformed message arrives (text that does not    *)
(* parse, or a node_update without data) leaves the nodes and their        *)
(* statuses, the running flag, the three projections and the conversation  *)
(* map as they were, no node has a status other than the runner's or none, *)
(* and the component is still mounted with its channel open, so that the   *)
(* next message is applied.                                                *)
C22_MalformedDropped ==
    [][lastOp'.op = "malformed" =>
          /\ nodes' = nodes /\ isRunning' = isRunning
          /\ logs' = logs /\ traceEvents' = traceEvents /\ toolEvents' = toolEvents
          /\ lastMessagesByWorkflow' = lastMessagesByWorkflow
          /\ \A i \in 1..Len(nodes') : nodes'[i].status \in NodeStatuses \cup {Undefined}
          /\ mount' = "loaded" /\ ws'.state = "open"]_vars

-----------------------------------------------------------------------------
(***************************************************************************)
(* Deliveries of up to MaxReceived messages of every kind, in every order, *)
(* to a session with one node.                                             *)
(***************************************************************************)
OrderMessages ==
    {NodeUpdateMsg([id \in {EventNode(1).id} |-> status]) : status \in NodeStatuses}
    \cup {StatusMsg("running"), StatusMsg("completed"), LogMsg("hi"),
          TraceMsg("tool_call"), TraceMsg("llm_token"),
          StateUpdateMsg(List(<<"m1">>)), StateUpdateMsg(List(<<>>))}

InitOrder == Started([InitialState EXCEPT !.nodes = EventGraph(1)], "w1")

NextOrder == \E msg \in OrderMessages : OnMessageInOrder(msg)

SpecOrder == InitOrder /\ [][NextOrder]_vars

\* the last position of the delivery at which a message of the set is, or 0
LastOf(msgs) ==
    LET at == {k \in 1..Len(received) : received[k] \in msgs}
    IN  IF at = {} THEN 0 ELSE CHOOSE k \in at : \A j \in at : j <= k
IsLogged(msg) == msg.type \in {"log", "status"}
IsTraced(msg) == msg.type = "trace" /\ msg.event # "llm_token"
IsToolTraced(msg) == msg.type = "trace" /\ msg.event \in {"tool_call", "tool_result"}
\* what a delivery, taken one message at a time in arrival order, leaves
LoggedLines ==
    LET sel == SelectSeq(received, IsLogged)
    IN  [k \in 1..Len(sel) |->
            [type |-> sel[k].type,
             message |-> IF sel[k].type = "log" THEN sel[k].message
                         ELSE "Workflow " \o sel[k].status]]
TracedEvents ==
    LET sel == SelectSeq(received, IsTraced)
    IN  [k \in 1..Len(sel) |-> [event |-> sel[k].event]]
ToolTracedEvents ==
    LET sel == SelectSeq(received, IsToolTraced)
    IN  [k \in 1..Len(sel) |-> [event |-> sel[k].event]]
LastRunSwitch ==
    LastOf({m \in OrderMessages : m.type = "status"})
LastConversationSent ==
    LastOf({m \in OrderMessages : m.type = "state_update" /\ m.value.k = "array"})
LastStatusSent(id) ==
    LET ended == LastOf({StatusMsg("completed")})
        at == {k \in (ended + 1)..Len(received) :
                  received[k].type = "node_update" /\ id \in DOMAIN received[k].data}
    IN  IF at = {} THEN Undefined
        ELSE received[CHOOSE k \in at : \A j \in at : j <= k].data[id]

(* C23: after a delivery the log holds the lines of its log and run-status *)
(* messages in arrival order, the trace and tool projections the entries   *)
(* of its trace events in arrival order, the running flag is the one of    *)
(* the last run-status message, the node has the status of the last        *)
(* node-status update after the last end of a run, and the conversation    *)
(* recorded is the one of the last snapshot that carried a sequence: the   *)
(* result of applying the messages one at a time in the order of arrival.  *)
C23_ArrivalOrder ==
    /\ logs = LoggedLines
    /\ traceEvents = TracedEvents
    /\ toolEvents = ToolTracedEvents
    /\ isRunning = (LastRunSwitch # 0 /\ received[LastRunSwitch].status = "running")
    /\ Len(nodes) = 1 /\ nodes[1].status = LastStatusSent(nodes[1].id)
    /\ lastMessagesByWorkflow =
          IF LastConversationSent = 0 THEN <<>>
          ELSE [w \in {"w1"} |-> received[LastConversationSent].value.q]

C23_Witness ==
    /\ Len(received) = 3
    /\ received[1] = StatusMsg("completed")
    /\ received[2].type = "node_update" /\ received[3] = StatusMsg("running")
    /\ nodes[1].status = "SUCCESS" /\ isRunning /\ Len(logs) = 2

-----------------------------------------------------------------------------
(***************************************************************************)
(* Applying a workflow (a template, a generated or an imported one) to a   *)
(* canvas whose nodes carry bindings, a configuration and run statuses.    *)
(***************************************************************************)
\* n.config || {}, n.input_bindings || {}, n.output_bindings || {}
OrEmpty(n, key) == IF key \in DOMAIN n THEN n[key] ELSE <<>>

\* workflow.nodes.map(n => ({id, type: getNodeVisualType(n.type), data: {...}}))
ConvertNode(n) ==
    [id |-> n.id, type |-> getNodeVisualType(n.type), nodeType |-> n.type,
     config |-> OrEmpty(n, "config"),
     input_bindings |-> OrEmpty(n, "input_bindings"),
     output_bindings |-> OrEmpty(n, "output_bindings"),
     status |-> Undefined]

\* workflow.edges.map(e => ({id: e.id, source: e.source, target: e.target}))
ConvertEdge(e) == [id |-> e.id, source |-> e.source, target |-> e.target]

\* a variant that keeps the nodes and edges of the canvas and adds the new ones
applyWorkflowMerging(workflow) ==
    /\ mount = "loaded"
    /\ Commit([Cur EXCEPT
                 !.nodes = @ \o [i \in 1..Len(workflow.nodes) |-> ConvertNode(workflow.nodes[i])],
                 !.edges = @ \o [i \in 1..Len(workflow.edges) |-> ConvertEdge(workflow.edges[i])]],
              storage)
    /\ lastOp' = [op |-> "apply", workflow |-> workflow, before |-> nodes]
    /\ UNCHANGED clock /\ Unchanged

\* applyWorkflow: setNodes(newNodes); setEdges(newEdges)
applyWorkflow(workflow) ==
    /\ mount = "loaded"
    /\ Commit([Cur EXCEPT
                 !.nodes = [i \in 1..Len(workflow.nodes) |-> ConvertNode(workflow.nodes[i])],
                 !.edges = [i \in 1..Len(workflow.edges) |-> ConvertEdge(workflow.edges[i])]],
              storage)
    /\ lastOp' = [op |-> "apply", workflow |-> workflow, before |-> nodes]
    /\ UNCHANGED clock /\ Unchanged

\* the canvas before: two agents with a configuration and bindings, one edge
CanvasNode(i) ==
    [id |-> EventNode(i).id, type |-> "action", nodeType |-> "Agent",
     config |-> [model |-> "old"], input_bindings |-> [task |-> "state.old"],
     output_bindings |-> [answer |-> "state.old_answer"], status |-> Undefined]
CanvasEdge == [id |-> "e_old", source |-> EventNode(1).id, target |-> EventNode(2).id]

\* workflows: an empty one, one that reuses an id of the canvas and leaves
\* the optional members out, and one with every member and a second edge
ApplyWorkflows ==
    {[nodes |-> <<>>, edges |-> <<>>],
     [nodes |-> <<[id |-> EventNode(1).id, type |-> "Sequence"]>>, edges |-> <<>>],
     [nodes |-> <<[id |-> "n1", type |-> "Selector", config |-> [model |-> "new"]],
                  [id |-> "n2", type |-> "Tool",
                   input_bindings |-> [query |-> "state.q"],
                   output_bindings |-> [result |-> "state.r"]]>>,
      edges |-> <<[id |-> "e1", source |-> "n1", target |-> "n2", animated |-> TRUE],
                  [id |-> "e_old", source |-> "n2", target |-> "n1"]>>]}

InitApply ==
    Started([InitialState EXCEPT !.nodes = <<CanvasNode(1), CanvasNode(2)>>,
                                 !.edges = <<CanvasEdge>>], "w1")

NextApply ==
    \/ \E data \in NodeUpdates : OnMessage(NodeUpdateMsg(data))
    \/ \E workflow \in ApplyWorkflows : applyWorkflow(workflow)

SpecApply == InitApply /\ [][NextApply]_vars

(* C26: right after a workflow has been applied, the canvas holds exactly  *)
(* the nodes of that workflow, in its order and under its ids, and exactly *)
(* its edges; every node has the configuration and the bindings the        *)
(* workflow gives it (none where it gives none) and no run status, so      *)
(* nothing of the canvas before is left.                                   *)
C26_ApplyReplaces ==
    lastOp.op = "apply" =>
        LET g == lastOp.workflow
        IN  /\ Len(nodes) = Len(g.nodes)
            /\ \A i \in 1..Len(nodes) :
                  /\ nodes[i].id = g.nodes[i].id
                  /\ nodes[i].nodeType = g.nodes[i].type
                  /\ nodes[i].status = Undefined
                  /\ \A key \in {"config", "input_bindings", "output_bindings"} :
                        nodes[i][key] = IF key \in DOMAIN g.nodes[i]
                                        THEN g.nodes[i][key] ELSE <<>>
            /\ Len(edges) = Len(g.edges)
            /\ \A i \in 1..Len(edges) :
                  /\ edges[i].id = g.edges[i].id
                  /\ edges[i].source = g.edges[i].source
                  /\ edges[i].target = g.edges[i].target

\* a workflow reusing the id of a running, bound node has just been applied
C26_Witness ==
    /\ lastOp.op = "apply" /\ Len(nodes) = 1
    /\ \E i \in 1..Len(lastOp.before) :
          /\ lastOp.before[i].id = nodes[1].id
          /\ lastOp.before[i].status = "RUNNING"
          /\ lastOp.before[i].input_bindings # <<>>
    /\ nodes[1].status = Undefined /\ nodes[1].input_bindings = <<>>
    /\ edges = <<>>

-----------------------------------------------------------------------------
(***************************************************************************)
(* Start-up over stored conversation and reuse records that are absent,    *)
(* unparsable, well formed, or the JSON text null, and the runs that       *)
(* follow.                                                                 *)
(***************************************************************************)
\* setShowInitialState(prev => !prev) opens the panel: its render evaluates
\* reuseMessagesByWorkflow[workflowId] for the reuse checkbox, shown when the
\* page has an identifier and the input schema a messages field; the lookup in
\* a map that is null raises, and the component tree is torn down
ShowInitialState ==
    /\ mount = "loaded"
    /\ lastOp' = [op |-> "panel"]
    /\ IF /\ workflowId # NullId /\ HasField(inferredInputFields, "messages")
          /\ reuseMessagesByWorkflow = Null
       THEN /\ mount' = "unmounted"
            /\ ws' = [NoChannel EXCEPT !.made = Cleanup(ws.made)]
            /\ UNCHANGED <<graphVars, workflowId, viewVars, chatVars, formVars,
                           reuseVars, hasHydrated, storage, memo>>
       ELSE /\ Rendered(Cur, storage)
            /\ UNCHANGED <<mount, ws>>
    /\ UNCHANGED <<queued, timerPending, server, requests, calls, clock, boot, typed,
                   marked, reported, received, panel>>

ShapeStates ==
    [nodes : {Absent, StoredNodes},
     edges : {Absent},
     workflowId : {"w1"},
     chatSessions : {Absent},
     activeChatSessionId : {""},
     lastRunMessages : {Absent, Corrupt, StoredLast, Json(Null)},
     reuseMessages : {Absent, Corrupt, StoredReuse, Json(Null)}]

InitShape == \E stor \in ShapeStates : Fresh(stor, {"w1"})

NextShape ==
    \/ Mount
    \/ Render
    \/ HydrationTimer
    \/ hasHydrated /\ ShowInitialState
    \/ hasHydrated /\ reuseMessagesByWorkflow # Null /\ calls = <<>>
          /\ setInitialStateValue(1, Str(""))
    \/ hasHydrated /\ onRun
    \/ \E i \in 1..MaxRuns : mount = "loaded" /\ RunSettled(i)

SpecShape == InitShape /\ [][NextShape]_vars

\* the record of the slot was stored malformed
Malformed(slot) == slot.k = "corrupt" \/ slot = Json(Null)

(* C27: once the loaded state is on screen, a conversation or reuse record *)
(* that was stored malformed (text that does not parse, or the text null)  *)
(* has been replaced by the empty map, the page is never torn down, and no *)
(* click on Run ends in an exception of the payload build.                 *)
C27_MalformedReplaced ==
    /\ (mount = "loaded" /\ lastOp.op = "render") =>
          /\ Malformed(boot.lastRunMessages) => lastMessagesByWorkflow = <<>>
          /\ Malformed(boot.reuseMessages) => reuseMessagesByWorkflow = <<>>
    /\ mount # "unmounted"
    /\ \A i \in 1..Len(calls) : calls[i].pc # "thrown"

-----------------------------------------------------------------------------
(***************************************************************************)
(* The schemas over graphs that mix nodes of the registry with nodes of a  *)
(* type the registry does not know, before and after the registry arrives. *)
(***************************************************************************)
InitFallback == Started(InitialState, "w1")

NextFallback ==
    \/ NodesFetched(HiddenRegistry)
    \/ \E type \in {"Scorer", "Echo", "Ghost"} : onDrop(type)
    \/ \E i \in 1..MaxNodes : RemoveNode(i)
    \/ \E i \in 1..MaxNodes, portName \in {"task", "text"},
          value \in {"", "state.final_answer"} :
          handleBindingChange(i, "input_bindings", portName, value)

SpecFallback == InitFallback /\ [][NextFallback]_vars

\* the nodes whose type the registry knows, in collection order
IsKnown(node) == \E m \in 1..Len(nodeMetas) : nodeMetas[m].id = node.nodeType
KnownNodes == SelectSeq(nodes, IsKnown)
\* the names the ports of the known nodes normalize to
Discovered == {Traversal(nodes, nodeMetas)[k].name : k \in 1..Len(Traversal(nodes, nodeMetas))}
DiscoveredInputs ==
    UNION {{Visit(normalizePorts(FindMeta(KnownNodes[i], nodeMetas).inputs),
                  KnownNodes[i].input_bindings)[k].name :
               k \in 1..Len(FindMeta(KnownNodes[i], nodeMetas).inputs)} :
           i \in 1..Len(KnownNodes)}

(* C28: both schemas are defined and non-empty for every graph; the nodes  *)
(* whose type the registry does not know change neither schema; when no    *)
(* port is discovered the full schema is messages (list, []), task (str,   *)
(* "") and round (int, 0) and nothing else, and when no input port with a  *)
(* name that is not hidden is discovered the input schema is messages      *)
(* (list, []) and task (str, "") and nothing else.                         *)
C28_SchemasNeverEmpty ==
    /\ Len(inferredStateFields) > 0 /\ Len(inferredInputFields) > 0
    /\ inferredStateFields = inferStateFields(KnownNodes, nodeMetas)
    /\ inferredInputFields = inferInputFields(KnownNodes, nodeMetas)
    /\ Discovered = {} =>
          inferredStateFields =
              << [name |-> "messages", type |-> "list", default |-> List(<<>>)],
                 [name |-> "task", type |-> "str", default |-> Str("")],
                 [name |-> "round", type |-> "int", default |-> Num(0)] >>
    /\ DiscoveredInputs \subseteq HIDDEN_INIT_FIELDS =>
          inferredInputFields =
              << [name |-> "messages", type |-> "list", default |-> List(<<>>)],
                 [name |-> "task", type |-> "str", default |-> Str("")] >>
    /\ Discovered # {} =>
          {inferredStateFields[i].name : i \in 1..Len(inferredStateFields)} = Discovered

\* with the registry loaded, the graph has a node of an unknown type and a
\* known one whose input ports all reach hidden names
C28_Witness ==
    /\ nodeMetas # <<>> /\ KnownNodes # <<>> /\ Len(KnownNodes) < Len(nodes)
    /\ Discovered # {} /\ DiscoveredInputs \subseteq HIDDEN_INIT_FIELDS
    /\ Len(inferredInputFields) = 2

-----------------------------------------------------------------------------
\* the step delivers again the message that was delivered last
Redelivered ==
    /\ received # <<>> /\ Len(received') = Len(received) + 1
    /\ received'[Len(received')] = received[Len(received)]
StatusesOf(ns) == [i \in 1..Len(ns) |-> ns[i].status]
\* the projection after is the projection before and one entry more
OneMore(before, after) ==
    /\ Len(after) = Len(before) + 1 /\ SubSeq(after, 1, Len(before)) = before

(* C30: when the message delivered last is delivered again at once, a node *)
(* update or a run-status update leaves every node's status as the first   *)
(* delivery left it, and a log line or a run-status update appends one     *)
(* entry to the log, a trace event that is not a token one entry to the    *)
(* trace, and a tool call or tool result one entry to the tool events.     *)
C30_Redelivery ==
    [][Redelivered =>
          LET msg == received[Len(received)] IN
          /\ msg.type \in {"node_update", "status"} =>
                StatusesOf(nodes') = StatusesOf(nodes)
          /\ IsLogged(msg) =>
                /\ OneMore(logs, logs')
                /\ logs'[Len(logs')].message = logs[Len(logs)].message
          /\ IsTraced(msg) =>
                /\ OneMore(traceEvents, traceEvents')
                /\ traceEvents'[Len(traceEvents')].event = msg.event
          /\ IsToolTraced(msg) =>
                /\ OneMore(toolEvents, toolEvents')
                /\ toolEvents'[Len(toolEvents')].event = msg.event]_vars

\* a node update, then a tool call delivered twice
C30_Witness ==
    /\ Len(received) = 3 /\ received[1].type = "node_update"
    /\ received[2] = TraceMsg("tool_call") /\ received[3] = received[2]
    /\ nodes[1].status # Undefined
    /\ Len(toolEvents) = 2 /\ Len(traceEvents) = 2

-----------------------------------------------------------------------------
(***************************************************************************)
(* Run-status updates of every label, between node updates, on a graph of  *)
(* one node.                                                               *)
(***************************************************************************)
InitLabels == Started([InitialState EXCEPT !.nodes = EventGraph(1)], "w1")

NextLabels ==
    \/ \E status \in NodeStatuses :
          OnMessage(NodeUpdateMsg([id \in {EventNode(1).id} |-> status]))
    \/ \E label \in StatusLabels : OnMessage(StatusMsg(label))

SpecLabels == InitLabels /\ [][NextLabels]_vars

(* C31: a run-status update, whatever its label, appends the one entry     *)
(* (status, "Workflow <label>") to the log and changes nothing else of     *)
(* it; with the label running no node's status changes; with a label       *)
(* that is neither running nor completed, stopped, idle or error, neither  *)
(* the nodes' statuses nor the running flag change.                        *)
C31_StatusLogged ==
    [][(lastOp'.op = "message" /\ lastOp'.type = "status") =>
          /\ logs' = Append(logs, [type |-> "status",
                                   message |-> "Workflow " \o lastOp'.status])
          /\ lastOp'.status = "running" => StatusesOf(nodes') = StatusesOf(nodes)
          /\ lastOp'.status \notin {"running", "completed", "stopped", "idle", "error"}
                => /\ StatusesOf(nodes') = StatusesOf(nodes)
                   /\ isRunning' = isRunning]_vars

\* an unknown label arrived while the run was on and a node had a status
C31_Witness ==
    /\ lastOp.op = "message" /\ lastOp.type = "status" /\ lastOp.status = "paused"
    /\ isRunning /\ nodes[1].status = "SUCCESS"
    /\ Len(logs) = 2 /\ logs[2].message = "Workflow paused"

-----------------------------------------------------------------------------
(***************************************************************************)
(* Every kind of message on a page that remembers the conversations of two *)
(* sessions, its own and another one.                                      *)
(***************************************************************************)
InitFrame ==
    Started([InitialState EXCEPT
               !.nodes = EventGraph(1),
               !.lastMessagesByWorkflow = [w \in {"w0", "w1"} |-> <<"user:old">>],
               !.reuseMessagesByWorkflow = [w \in {"w0"} |-> TRUE]], "w1")

NextFrame == \E msg \in OrderMessages : OnMessage(msg)

SpecFrame == InitFrame /\ [][NextFrame]_vars

\* the parts of the view other than the four projections and the nodes
RestOfView ==
    <<edges, nodeMetas, reactFlowInstance, workflowId, chatSessions,
      activeChatSessionId, hasHydrated, initialStateValues, initialStateError,
      reuseMessagesByWorkflow>>
\* the nodes but for their statuses
Unstatused(ns) == [i \in 1..Len(ns) |-> [ns[i] EXCEPT !.status = Undefined]]

(* C32: a log line changes only the log; a trace event only the trace and  *)
(* the tool events; a state snapshot only the remembered conversation of   *)
(* the identifier the channel was opened for, the conversations of other   *)
(* identifiers staying as they are; a node update only the statuses of the *)
(* nodes.                                                                  *)
C32_OwnProjectionOnly ==
    [][lastOp'.op = "message" =>
          /\ UNCHANGED RestOfView
          /\ lastOp'.type = "log" =>
                UNCHANGED <<nodes, isRunning, traceEvents, toolEvents,
                            lastMessagesByWorkflow>>
          /\ lastOp'.type = "trace" =>
                UNCHANGED <<nodes, isRunning, logs, lastMessagesByWorkflow>>
          /\ lastOp'.type = "state_update" =>
                /\ UNCHANGED <<nodes, isRunning, logs, traceEvents, toolEvents>>
                /\ DOMAIN lastMessagesByWorkflow' \subseteq
                       DOMAIN lastMessagesByWorkflow \cup {ws.id}
                /\ \A w \in DOMAIN lastMessagesByWorkflow \ {ws.id} :
                      /\ w \in DOMAIN lastMessagesByWorkflow'
                      /\ lastMessagesByWorkflow'[w] = lastMessagesByWorkflow[w]
          /\ lastOp'.type = "node_update" =>
                /\ UNCHANGED <<isRunning, logs, traceEvents, toolEvents,
                               lastMessagesByWorkflow>>
                /\ Unstatused(nodes') = Unstatused(nodes)]_vars

\* a snapshot has replaced the conversation of w1 and left that of w0
C32_Witness ==
    /\ lastOp.op = "message" /\ lastOp.type = "state_update"
    /\ lastMessagesByWorkflow["w1"] = <<"m1">>
    /\ lastMessagesByWorkflow["w0"] = <<"user:old">>
    /\ logs # <<>> /\ traceEvents # <<>> /\ nodes[1].status # Undefined

-----------------------------------------------------------------------------
(* C33: a run request is sent only by the step in which the save of the    *)
(* same invocation has succeeded (the first save, or the save repeated     *)
(* after the recovery), and a save request of that invocation under the    *)
(* identifier of the run request was sent before it; a save that failed    *)
(* otherwise, or that was skipped, sends no run request.                   *)
C33_RunOnlyAfterSave ==
    [][(Len(requests') = Len(requests) + 1 /\ requests'[Len(requests')].op = "run") =>
          LET sent == requests'[Len(requests')] IN
          /\ lastOp'.op \in {"saved", "resaved"}
          /\ lastOp'.op = "saved" => ~lastOp'.failed
          /\ \E j \in 1..Len(requests) :
                /\ requests[j].op = "save" /\ requests[j].run = sent.run
                /\ requests[j].id = sent.id]_vars

-----------------------------------------------------------------------------
(* C34: every field of the input schema is a field of the full schema of   *)
(* the same nodes and registry, under the same name, with the same type    *)
(* and the same default.                                                   *)
C34_InputWithinFull ==
    \A i \in 1..Len(inferredInputFields) :
       \E j \in 1..Len(inferredStateFields) :
          /\ inferredStateFields[j].name = inferredInputFields[i].name
          /\ inferredStateFields[j].type = inferredInputFields[i].type
          /\ inferredStateFields[j].default = inferredInputFields[i].default

-----------------------------------------------------------------------------
\* the run-status updates among the messages delivered, in arrival order
StatusesReceived == SelectSeq(received, LAMBDA m : m.type = "status")

(* C35: whenever no run-status update has been received since the page was *)
(* loaded, or the one received last has the label completed, stopped, idle *)
(* or error, no node of the graph carries a status.                        *)
C35_NoStatusWithoutRun ==
    (\/ StatusesReceived = <<>>
     \/ StatusesReceived[Len(StatusesReceived)].status
           \in {"completed", "stopped", "idle", "error"})
    => \A i \in 1..Len(nodes) : nodes[i].status = Undefined

-----------------------------------------------------------------------------
(***************************************************************************)
(* A run whose channel closes.  The collaborator reports the run's status  *)
(* on the channel while it is open; the operator can click Stop while the  *)
(* run is shown as running.                                                *)
(***************************************************************************)
\* onStop: if (!workflowId) return; await stopWorkflow(workflowId)
onStop ==
    /\ mount = "loaded" /\ isRunning /\ workflowId # NullId
    /\ Len(SelectSeq(requests, LAMBDA r : r.op = "stop")) < MaxRuns
    /\ requests' = Append(requests, Request("stop", workflowId, 0, <<>>))
    /\ lastOp' = [op |-> "stop"]
    /\ UNCHANGED <<server, calls>> /\ Idle

InitDisconnect == Started([InitialState EXCEPT !.nodes = EventGraph(1)], "w1")

NextDisconnect ==
    \/ \E status \in NodeStatuses :
          OnMessage(NodeUpdateMsg([id \in {EventNode(1).id} |-> status]))
    \/ \E label \in {"running", "completed", "stopped"} : OnMessage(StatusMsg(label))
    \/ OnError
    \/ OnClose
    \/ onStop

\* every step that stays possible is taken: the operator clicks Stop, and
\* the collaborator's report of the end of the run is delivered
SpecDisconnect ==
    /\ InitDisconnect /\ [][NextDisconnect]_vars
    /\ WF_vars(NextDisconnect)
    /\ WF_vars(onStop)
    /\ \A label \in {"completed", "stopped"} : WF_vars(OnMessage(StatusMsg(label)))

(* C36: when the channel is closed while the run is shown as running, the  *)
(* running flag is false again at some later time, so that Run can be      *)
(* clicked.                                                                *)
C36_RunnableAfterDisconnect == (ws.state = "closed" /\ isRunning) ~> ~isRunning

-----------------------------------------------------------------------------
(***************************************************************************)
(* Clicks on Run that do not wait for the invocation before: the button is *)
(* shown as long as no running status has arrived.                         *)
(***************************************************************************)
InitOverlap == Started([InitialState EXCEPT !.reactFlowInstance = TRUE], "w1")

NextOverlap ==
    \/ Invoke(MaxRuns + 1)
    \/ \E i \in 1..(MaxRuns + 1), failed \in BOOLEAN : SaveSettled(i, failed)
    \/ \E i \in 1..(MaxRuns + 1) : RunSettled(i)
    \/ \E i \in 1..(MaxRuns + 1) : RequestFails(i)
    \/ \E label \in {"running", "completed"} : OnMessage(StatusMsg(label))

SpecOverlap == InitOverlap /\ [][NextOverlap]_vars

(* C37: a click on Run sends a request only when every invocation before   *)
(* it has ended (the click itself is possible only while no running status *)
(* is shown), so that the requests of two invocations are never in flight  *)
(* together.                                                               *)
C37_OneRunInFlight ==
    [][(Len(calls') = Len(calls) + 1 /\ Len(requests') = Len(requests) + 1) =>
          \A i \in 1..Len(calls) : Settled(calls[i])]_vars

-----------------------------------------------------------------------------
(***************************************************************************)
(* The chat panel.  It is mounted while the right-hand tab is 'chat'; its  *)
(* loading flag is state of the mounted instance; a sendMessage call waits *)
(* for the reply with the values its closure captured.                     *)
(***************************************************************************)
MaxSends == 2          \* sendMessage calls, and mounts of the chat panel

\* setRightPanelTab(tab): the tab 'chat' mounts a new ChatPanel (loading is
\* false in it), the tab 'properties' unmounts the one shown
setRightPanelTab(tab) ==
    /\ mount = "loaded" /\ (tab = "chat") # panel.shown
    /\ tab = "chat" => panel.instance < MaxSends
    /\ panel' = IF tab = "chat"
                THEN [panel EXCEPT !.shown = TRUE, !.instance = @ + 1, !.loading = FALSE]
                ELSE [panel EXCEPT !.shown = FALSE]
    /\ Commit(Cur, storage)
    /\ lastOp' = [op |-> "tab", tab |-> tab]
    /\ UNCHANGED <<mount, queued, timerPending, server, requests, calls, clock, boot,
                   typed, marked, reported, received>>

\* sessions.find(s => s.id === activeSessionId) || sessions[0]
ActiveSession ==
    IF activeChatSessionId \in SessionIds(chatSessions)
    THEN chatSessions[CHOOSE i \in 1..Len(chatSessions) :
                         chatSessions[i].id = activeChatSessionId]
    ELSE chatSessions[1]

\* sendMessage up to its await: newMessages = [...messages, user turn] is set
\* as the messages of the active session, and the request is sent
sendMessage(text) ==
    /\ mount = "loaded" /\ panel.shown /\ chatSessions # <<>>
    /\ text # "" /\ ~panel.loading /\ Len(panel.sends) < MaxSends
    /\ LET newMessages == Append(ActiveSession.messages, "user:" \o text) IN
       /\ Commit([Cur EXCEPT !.chatSessions =
                     [i \in 1..Len(chatSessions) |->
                         IF chatSessions[i].id = ActiveSession.id
                         THEN [chatSessions[i] EXCEPT
                                 !.title = IF chatSessions[i].messages = <<>>
                                           THEN text ELSE @,
                                 !.messages = newMessages]
                         ELSE chatSessions[i]]], storage)
       /\ panel' = [panel EXCEPT
                      !.loading = TRUE,
                      !.sends = Append(@, [id |-> ActiveSession.id,
                                           newMessages |-> newMessages,
                                           instance |-> panel.instance,
                                           pending |-> TRUE])]
    /\ lastOp' = [op |-> "send", id |-> ActiveSession.id]
    /\ UNCHANGED <<mount, queued, timerPending, server, requests, calls, clock, boot,
                   typed, marked, reported, received>>

\* the request of send k settles: the reply, or the error text, is set after
\* the newMessages of the call's closure; setLoading(false) reaches the
\* instance that sent it
chatReplied(k, ok) ==
    /\ mount = "loaded" /\ k \in 1..Len(panel.sends) /\ panel.sends[k].pending
    /\ LET send  == panel.sends[k]
           reply == IF ok THEN "model:reply" ELSE "model:error"
       IN  /\ Commit([Cur EXCEPT !.chatSessions =
                         [i \in 1..Len(@) |->
                             IF @[i].id = send.id
                             THEN [@[i] EXCEPT !.messages = Append(send.newMessages, reply)]
                             ELSE @[i]]], storage)
           /\ panel' = [panel EXCEPT
                          !.sends[k].pending = FALSE,
                          !.loading = IF send.instance = panel.instance THEN FALSE ELSE @]
           /\ lastOp' = [op |-> "reply", k |-> k, id |-> send.id]
    /\ UNCHANGED <<mount, queued, timerPending, server, requests, calls, clock, boot,
                   typed, marked, reported, received>>

InitSend == Started(InitialState, "w1")

NextSend ==
    \/ \E tab \in {"properties", "chat"} : setRightPanelTab(tab)
    \/ sendMessage("m" \o ToString(Len(panel.sends) + 1))
    \/ \E k \in 1..MaxSends, ok \in BOOLEAN : chatReplied(k, ok)
    \/ createChatSession
    \/ \E id \in ChatIds : selectChatSession(id)

SpecSend == InitSend /\ [][NextSend]_vars

(* C38: in every step the messages of each chat session are its messages   *)
(* before, possibly with more after them; and a reply is put into the      *)
(* session its message was sent from, directly after that message.         *)
C38_ChatAppendOnly ==
    [][/\ \A i \in 1..Len(chatSessions), j \in 1..Len(chatSessions') :
             chatSessions[i].id = chatSessions'[j].id =>
                IsPrefix(chatSessions[i].messages, chatSessions'[j].messages)
       /\ lastOp'.op = "reply" =>
             \A j \in 1..Len(chatSessions') :
                chatSessions'[j].messages # chatSessions[j].messages =>
                   LET after == chatSessions'[j].messages
                       sent  == panel.sends[lastOp'.k].newMessages
                   IN  /\ chatSessions'[j].id = lastOp'.id
                       /\ after[Len(after)] \in {"model:reply", "model:error"}
                       /\ after[Len(after) - 1] = sent[Len(sent)]]_vars

-----------------------------------------------------------------------------
(***************************************************************************)
(* Bindings the operator can type that carry no name: blanks only, or the  *)
(* prefix "state." alone.                                                  *)
(***************************************************************************)
InitBlank == Started(InitialState, "w1")

NextBlank ==
    \/ NodesFetched(HiddenRegistry)
    \/ \E type \in {"Scorer", "Echo"} : onDrop(type)
    \/ \E i \in 1..MaxNodes, portName \in {"text", "task"},
          value \in {"", "  ", "state.", "state.q"} :
          handleBindingChange(i, "input_bindings", portName, value)
    \/ \E i \in 1..MaxNodes, value \in {"", "  ", "state."} :
          handleBindingChange(i, "output_bindings", "score", value)

SpecBlank == InitBlank /\ [][NextBlank]_vars

(* C39: with a registry all of whose ports have a non-empty name, every    *)
(* field of the full schema and of the input schema has a non-empty name,  *)
(* whatever the bindings are.                                              *)
C39_NamesNotEmpty ==
    (\A m \in 1..Len(nodeMetas) :
        /\ \A k \in 1..Len(nodeMetas[m].inputs) : nodeMetas[m].inputs[k].name # ""
        /\ \A k \in 1..Len(nodeMetas[m].outputs) : nodeMetas[m].outputs[k].name # "")
    => /\ \A i \in 1..Len(inferredStateFields) : inferredStateFields[i].name # ""
       /\ \A i \in 1..Len(inferredInputFields) : inferredInputFields[i].name # ""

====
